---- MODULE Spec2Model ----
(***************************************************************************)
(* Bridge between the local event-sourced agent runtime (ADK) and the      *)
(* agent-to-agent wire protocol (A2A).                                      *)
(*                                                                         *)
(*   server role  Executor.Execute / eventProcessor   (Spec)               *)
(*   client role  newMessage / toMissingRemoteSessionParts (DiffSpec)      *)
(*   client role  a2aAgent.run                        (DriverSpec)         *)
(*   client role  one remote agent, several invocations (AgentSpec)        *)
(*   part codec   ToA2AParts / ToGenAIParts           (CodecSpec)          *)
(*                                                                         *)
(* Go strings are TLA+ strings, Go maps are functions over their keys, a   *)
(* nil pointer is Nil.  Random message IDs and timestamps are left out of  *)
(* the records: no operation of the bridge reads them.                     *)
(***************************************************************************)
EXTENDS Integers, Sequences, FiniteSets, TLC

VARIABLES
    \* ---- server role: one Execute invocation
    reqCtx,          \* a2asrv.RequestContext of the invocation
    pc,              \* position of Execute
    queue,           \* events accepted by eventqueue.Queue.Write, in order
    processor,       \* eventProcessor{responseID, terminalEvents}
    pending,         \* makeTerminalEvents() result still to be written
    sessions,        \* session store: keys of the stored sessions
    sessionCalls,    \* calls Execute made to the session service, in order
    runLog,          \* what r.Run has yielded so far
    runEnd,          \* how the loop over r.Run was left
    ret,             \* return value of Execute
    writeFailed,     \* some queue.Write returned an error
    \* ---- client role: one a2aAgent.run invocation
    events,          \* ctx.Session().Events(), the session log
    cfg,             \* A2AConfig of the remote agent
    resolvedCard,    \* a2aAgent.resolvedCard
    dpc,             \* position of a2aAgent.run
    msg,             \* message returned by newMessage
    yielded,         \* (event, error) pairs handed to the consumer, in order
    client,          \* transport client: "none", "open", "destroyed"
    destroys,        \* number of client.Destroy calls
    sends,           \* number of SendStreamingMessage calls
    inbound,         \* (event, error) pairs read from the stream, in order
    exit,            \* the path on which run was left
    \* ---- part codec: one conversion there and back
    given,           \* the parts handed to the first conversion
    toolIDs,         \* longRunningToolIDs handed to ToA2AParts
    genaiParts,      \* []*genai.Part in hand
    a2aParts,        \* []a2a.Part in hand
    recovered,       \* getLongRunningToolIDs of the decoded parts
    codecErr,        \* error returned by a conversion
    todo,            \* conversions still to run
    \* ---- one remote agent (cfg, resolvedCard) invoked several times
    invocations,     \* per invocation of run: position, local card, outcome
    world            \* the card file, and the calls made to resolver and file

svars == <<reqCtx, pc, queue, processor, pending, sessions, sessionCalls, runLog, runEnd, ret, writeFailed>>
cvars == <<events, cfg, resolvedCard, dpc, msg, yielded, client, destroys, sends, inbound, exit>>
pvars == <<given, toolIDs, genaiParts, a2aParts, recovered, codecErr, todo>>
avars == <<invocations, world>>
vars == <<reqCtx, pc, queue, processor, pending, sessions, sessionCalls, runLog, runEnd, ret,
          writeFailed,
          events, cfg, resolvedCard, dpc, msg, yielded, client, destroys, sends, inbound, exit,
          given, toolIDs, genaiParts, a2aParts, recovered, codecErr, todo,
          invocations, world>>

----------------------------------------------------------------------------
(* Bounds *)

\* parts handed to one conversion
MaxParts == 2

\* events one local run yields before it must end
MaxRunEvents == 3

\* events in the session log an outbound message is built from
MaxLogLen == 3

\* items the peer's response stream delivers before it must end
MaxStreamItems == 3

----------------------------------------------------------------------------
(* Go values *)

Nil == [nil |-> TRUE]

EmptyMap == <<>>

Put(m, k, v) == [x \in (DOMAIN m) \cup {k} |-> IF x = k THEN v ELSE m[x]]

Has(m, k) == k \in DOMAIN m

\* a value json.Marshal rejects (a channel or a func inside a map[string]any)
Unserialisable == "chan"

\* genai.Part{}: all fields zero
EmptyPart ==
    [Text |-> "", Thought |-> FALSE, FunctionCall |-> Nil, FunctionResponse |-> Nil,
     InlineData |-> Nil, FileData |-> Nil, VideoMetadata |-> Nil,
     ExecutableCode |-> Nil, CodeExecutionResult |-> Nil]

NewPartFromText(text) == [EmptyPart EXCEPT !.Text = text]

NewPartFromFunctionCall(id, name, args) ==
    [EmptyPart EXCEPT !.FunctionCall = [ID |-> id, Name |-> name, Args |-> args]]

NewPartFromFunctionResponse(id, name, response) ==
    [EmptyPart EXCEPT !.FunctionResponse = [ID |-> id, Name |-> name, Response |-> response]]

NewContentFromParts(parts, role) == [Parts |-> parts, Role |-> role]

\* session.Event{}: all fields zero
EmptyEvent ==
    [InvocationID |-> "", Author |-> "", Branch |-> "", Content |-> Nil,
     LongRunningToolIDs |-> <<>>, ErrorCode |-> "", ErrorMessage |-> "",
     TurnComplete |-> FALSE, CustomMetadata |-> EmptyMap, GroundingMetadata |-> ""]

----------------------------------------------------------------------------
(* PartCodec, encoding direction *)

ToA2AMetaKey(key) == "adk_" \o key

a2aDataPartMetaTypeKey == ToA2AMetaKey("type")
a2aDataPartMetaLongRunningKey == ToA2AMetaKey("is_long_running")

a2aDataPartTypeFunctionCall == "function_call"
a2aDataPartTypeFunctionResponse == "function_response"
a2aDataPartTypeCodeExecResult == "code_execution_result"
a2aDataPartTypeCodeExecutableCode == "executable_code"

Contains(seq, x) == \E i \in 1..Len(seq) : seq[i] = x

\* json.Marshal then json.Unmarshal into a map: fields with a zero value are
\* omitted (omitempty), an unserialisable value fails the conversion
JSONTag ==
    [ID |-> "id", Name |-> "name", Args |-> "args", Response |-> "response",
     Outcome |-> "outcome", Output |-> "output", Code |-> "code", Language |-> "language",
     FPS |-> "fps"]

FieldOfTag(data, tag) == CHOOSE f \in DOMAIN data : JSONTag[f] = tag

toMapStructure(data) ==
    IF \E k \in DOMAIN data : data[k] = Unserialisable
    THEN [err |-> "json: unsupported type", val |-> Nil]
    ELSE [err |-> "",
          val |-> [t \in {JSONTag[f] : f \in {g \in DOMAIN data : data[g] # ""}}
                   |-> data[FieldOfTag(data, t)]]]

Base64Encode(bytes) == "b64(" \o bytes \o ")"

\* the inline-data case of toA2AFilePart, data being the map of v.VideoMetadata
inlineFilePart(v, data) ==
    IF data.err # "" THEN [err |-> data.err, val |-> Nil]
    ELSE [err |-> "",
          val |-> [kind |-> "file",
                   File |-> [kind |-> "bytes", Name |-> v.InlineData.DisplayName,
                             MimeType |-> v.InlineData.MIMEType,
                             Bytes |-> Base64Encode(v.InlineData.Data)],
                   Metadata |-> IF data.val = Nil THEN Nil
                                ELSE Put(EmptyMap, "video_metadata", data.val)]]

toA2AFilePart(v) ==
    IF v.FileData # Nil
    THEN [err |-> "",
          val |-> [kind |-> "file",
                   File |-> [kind |-> "uri", Name |-> v.FileData.DisplayName,
                             MimeType |-> v.FileData.MIMEType, URI |-> v.FileData.FileURI],
                   Metadata |-> Nil]]
    ELSE inlineFilePart(v, IF v.VideoMetadata # Nil THEN toMapStructure(v.VideoMetadata)
                           ELSE [err |-> "", val |-> Nil])

DataPartOf(conv, meta) ==
    IF conv.err # "" THEN [err |-> conv.err, val |-> Nil]
    ELSE [err |-> "", val |-> [kind |-> "data", Data |-> conv.val, Metadata |-> meta]]

\* the long-running flag of a function call is always false
toA2ADataPart_neverLongRunning(part, longRunningToolIDs) ==
    IF part.CodeExecutionResult # Nil
    THEN DataPartOf(toMapStructure(part.CodeExecutionResult),
                    Put(EmptyMap, a2aDataPartMetaTypeKey, a2aDataPartTypeCodeExecResult))
    ELSE IF part.FunctionResponse # Nil
    THEN DataPartOf(toMapStructure(part.FunctionResponse),
                    Put(EmptyMap, a2aDataPartMetaTypeKey, a2aDataPartTypeFunctionResponse))
    ELSE IF part.ExecutableCode # Nil
    THEN DataPartOf(toMapStructure(part.ExecutableCode),
                    Put(EmptyMap, a2aDataPartMetaTypeKey, a2aDataPartTypeCodeExecutableCode))
    ELSE IF part.FunctionCall # Nil
    THEN DataPartOf(toMapStructure(part.FunctionCall),
                    Put(Put(EmptyMap, a2aDataPartMetaTypeKey, a2aDataPartTypeFunctionCall),
                        a2aDataPartMetaLongRunningKey, FALSE))
    ELSE [err |-> "", val |-> [kind |-> "data", Data |-> EmptyMap, Metadata |-> Nil]]

toA2ADataPart(part, longRunningToolIDs) ==
    IF part.CodeExecutionResult # Nil
    THEN DataPartOf(toMapStructure(part.CodeExecutionResult),
                    Put(EmptyMap, a2aDataPartMetaTypeKey, a2aDataPartTypeCodeExecResult))
    ELSE IF part.FunctionResponse # Nil
    THEN DataPartOf(toMapStructure(part.FunctionResponse),
                    Put(EmptyMap, a2aDataPartMetaTypeKey, a2aDataPartTypeFunctionResponse))
    ELSE IF part.ExecutableCode # Nil
    THEN DataPartOf(toMapStructure(part.ExecutableCode),
                    Put(EmptyMap, a2aDataPartMetaTypeKey, a2aDataPartTypeCodeExecutableCode))
    ELSE IF part.FunctionCall # Nil
    THEN DataPartOf(toMapStructure(part.FunctionCall),
                    Put(Put(EmptyMap, a2aDataPartMetaTypeKey, a2aDataPartTypeFunctionCall),
                        a2aDataPartMetaLongRunningKey,
                        Contains(longRunningToolIDs, part.FunctionCall.ID)))
    ELSE [err |-> "", val |-> [kind |-> "data", Data |-> EmptyMap, Metadata |-> Nil]]

toA2APart(part, longRunningToolIDs) ==
    IF part.Text # ""
    THEN [err |-> "",
          val |-> [kind |-> "text", Text |-> part.Text,
                   Metadata |-> IF part.Thought
                                THEN Put(EmptyMap, ToA2AMetaKey("thought"), TRUE)
                                ELSE Nil]]
    ELSE IF part.InlineData # Nil \/ part.FileData # Nil
    THEN toA2AFilePart(part)
    ELSE toA2ADataPart(part, longRunningToolIDs)

\* the first part that fails aborts the whole conversion
ToA2AParts(parts, longRunningToolIDs) ==
    LET conv == [i \in 1..Len(parts) |-> toA2APart(parts[i], longRunningToolIDs)]
        bad == {i \in 1..Len(parts) : conv[i].err # ""}
    IN IF bad # {}
       THEN [err |-> conv[CHOOSE i \in bad : \A j \in bad : i <= j].err, val |-> <<>>]
       ELSE [err |-> "", val |-> [i \in 1..Len(parts) |-> conv[i].val]]

----------------------------------------------------------------------------
(* PartCodec, decoding direction *)

\* a JSON value of the wrong type for the struct field it is decoded into
Mistyped == "<mistyped>"

\* json.Marshal writes the keys of a map in sorted order
JSONKeyOrder ==
    <<"args", "code", "id", "language", "name", "outcome", "output", "response", "zzz">>

RECURSIVE JSONFields(_, _, _)
JSONFields(m, i, first) ==
    IF i > Len(JSONKeyOrder) THEN ""
    ELSE LET k == JSONKeyOrder[i] IN
         IF Has(m, k)
         THEN (IF first THEN "" ELSE ",") \o "\"" \o k \o "\":\"" \o m[k] \o "\""
              \o JSONFields(m, i + 1, FALSE)
         ELSE JSONFields(m, i + 1, first)

jsonMarshal(m) == "{" \o JSONFields(m, 1, TRUE) \o "}"

\* json.Unmarshal of a JSON object into a struct with the given fields
jsonUnmarshal(data, fields) ==
    IF \E f \in fields : Has(data, JSONTag[f]) /\ data[JSONTag[f]] = Mistyped
    THEN [err |-> "json: cannot unmarshal", val |-> Nil]
    ELSE [err |-> "",
          val |-> [f \in fields |-> IF Has(data, JSONTag[f]) THEN data[JSONTag[f]] ELSE ""]]

\* opaque data is turned down
toGenAITextPart_rejects(part) == [err |-> "unsupported data part", val |-> Nil]

toGenAITextPart(part) == [err |-> "", val |-> NewPartFromText(jsonMarshal(part.Data))]

toGenAIDataPart(part) ==
    IF part.Metadata = Nil THEN toGenAITextPart(part)
    ELSE IF ~Has(part.Metadata, a2aDataPartMetaTypeKey) THEN toGenAITextPart(part)
    ELSE
    LET adkMetaType == part.Metadata[a2aDataPartMetaTypeKey]
        typed(field, fields) ==
            LET u == jsonUnmarshal(part.Data, fields)
            IN IF u.err # "" THEN [err |-> u.err, val |-> Nil]
               ELSE [err |-> "", val |-> [EmptyPart EXCEPT ![field] = u.val]]
    IN
    IF adkMetaType = a2aDataPartTypeCodeExecResult
    THEN typed("CodeExecutionResult", {"Outcome", "Output"})
    ELSE IF adkMetaType = a2aDataPartTypeFunctionCall
    THEN typed("FunctionCall", {"ID", "Name", "Args"})
    ELSE IF adkMetaType = a2aDataPartTypeCodeExecutableCode
    THEN typed("ExecutableCode", {"Code", "Language"})
    ELSE IF adkMetaType = a2aDataPartTypeFunctionResponse
    THEN typed("FunctionResponse", {"ID", "Name", "Response"})
    ELSE [err |-> "", val |-> NewPartFromText(jsonMarshal(part.Data))]

IsBase64(s) == Len(s) >= 5 /\ SubSeq(s, 1, 4) = "b64(" /\ SubSeq(s, Len(s), Len(s)) = ")"

Base64Decode(s) == SubSeq(s, 5, Len(s) - 1)

toGenAIFilePart(part) ==
    IF part.File.kind = "bytes"
    THEN IF ~IsBase64(part.File.Bytes)
         THEN [err |-> "illegal base64 data", val |-> Nil]
         ELSE [err |-> "",
               val |-> [EmptyPart EXCEPT !.InlineData =
                           [Data |-> Base64Decode(part.File.Bytes),
                            MIMEType |-> part.File.MimeType,
                            DisplayName |-> part.File.Name]]]
    ELSE IF part.File.kind = "uri"
    THEN [err |-> "",
          val |-> [EmptyPart EXCEPT !.FileData =
                      [FileURI |-> part.File.URI, MIMEType |-> part.File.MimeType,
                       DisplayName |-> part.File.Name]]]
    ELSE [err |-> "unknown file content type", val |-> Nil]

toGenAIPart(part) ==
    IF part.kind = "text"
    THEN [err |-> "",
          val |-> [NewPartFromText(part.Text) EXCEPT !.Thought =
                      IF part.Metadata # Nil /\ Has(part.Metadata, ToA2AMetaKey("thought"))
                      THEN part.Metadata[ToA2AMetaKey("thought")] ELSE FALSE]]
    ELSE IF part.kind = "data" THEN toGenAIDataPart(part)
    ELSE IF part.kind = "file" THEN toGenAIFilePart(part)
    ELSE [err |-> "unknown part type", val |-> Nil]

toGenAIParts(parts) ==
    LET conv == [i \in 1..Len(parts) |-> toGenAIPart(parts[i])]
        bad == {i \in 1..Len(parts) : conv[i].err # ""}
    IN IF bad # {}
       THEN [err |-> conv[CHOOSE i \in bad : \A j \in bad : i <= j].err, val |-> <<>>]
       ELSE [err |-> "", val |-> [i \in 1..Len(parts) |-> conv[i].val]]

RoleUser == "user"
RoleModel == "model"

toGenAIContent(m) ==
    LET parts == toGenAIParts(m.Parts)
    IN IF parts.err # "" THEN [err |-> parts.err, val |-> Nil]
       ELSE [err |-> "", val |-> [Parts |-> parts.val, Role |-> RoleUser]]

----------------------------------------------------------------------------
(* a2a wire events, as built by the a2a constructors the bridge calls *)

TaskStateSubmitted == "submitted"
TaskStateWorking == "working"
TaskStateInputRequired == "input-required"
TaskStateCompleted == "completed"
TaskStateFailed == "failed"

MessageRoleAgent == "agent"
MessageRoleUser == "user"

NewMessageForTask(role, task, parts) ==
    [kind |-> "message", Role |-> role, Parts |-> parts,
     TaskID |-> task.TaskID, ContextID |-> task.ContextID]

NewStatusUpdateEvent(task, state, message) ==
    [kind |-> "status-update", TaskID |-> task.TaskID, ContextID |-> task.ContextID,
     State |-> state, Message |-> message, Final |-> FALSE, Metadata |-> Nil]

NewArtifactEvent(task, id, parts) ==
    [kind |-> "artifact-update", TaskID |-> task.TaskID, ContextID |-> task.ContextID,
     ArtifactID |-> id, Parts |-> parts, Append |-> FALSE, LastChunk |-> FALSE,
     Metadata |-> Nil]

NewArtifactUpdateEvent(task, id, parts) ==
    [kind |-> "artifact-update", TaskID |-> task.TaskID, ContextID |-> task.ContextID,
     ArtifactID |-> id, Parts |-> parts, Append |-> TRUE, LastChunk |-> FALSE,
     Metadata |-> Nil]

----------------------------------------------------------------------------
(* server role: metadata.go *)

AppName == "app"

toInvocationMeta(rc) ==
    [userID |-> "A2A_USER_" \o rc.ContextID,
     sessionID |-> rc.ContextID,
     eventMeta |-> [adk_app_name |-> AppName,
                    adk_user_id |-> "A2A_USER_" \o rc.ContextID,
                    adk_session_id |-> rc.ContextID]]

PutNonEmpty(m, k, v) == IF v # "" THEN Put(m, ToA2AMetaKey(k), v) ELSE m

toEventMeta(meta, event) ==
    LET m1 == PutNonEmpty(meta.eventMeta, "invocation_id", event.InvocationID)
        m2 == PutNonEmpty(m1, "author", event.Author)
        m3 == PutNonEmpty(m2, "branch", event.Branch)
        m4 == PutNonEmpty(m3, "error_code", event.ErrorCode)
    IN IF event.GroundingMetadata = ""
       THEN [err |-> "", val |-> m4]
       ELSE IF event.GroundingMetadata = Unserialisable
       THEN [err |-> "json: unsupported type", val |-> Nil]
       ELSE [err |-> "",
             val |-> Put(m4, ToA2AMetaKey("grounding_metadata"), event.GroundingMetadata)]

----------------------------------------------------------------------------
(* server role: processor.go *)

newEventProcessor == [responseID |-> "", terminalEvents |-> EmptyMap]

toTaskFailedUpdateEvent(task, cause, meta) ==
    [NewStatusUpdateEvent(task, TaskStateFailed,
        NewMessageForTask(MessageRoleAgent, task,
                          <<[kind |-> "text", Text |-> cause, Metadata |-> Nil]>>))
     EXCEPT !.Metadata = meta, !.Final = TRUE]

errorFromResponse(resp) == "llm error response: \"" \o resp.ErrorMessage \o "\""

isInputRequired(event, parts) ==
    \E i \in 1..Len(parts) :
        /\ parts[i].FunctionCall # Nil
        /\ Contains(event.LongRunningToolIDs, parts[i].FunctionCall.ID)

\* the artifact update for the converted parts of one event
newArtifactResult_alwaysNew(p, rc, newID, parts) == NewArtifactEvent(rc, newID, parts)

newArtifactResult(p, rc, newID, parts) ==
    IF p.responseID = ""
    THEN NewArtifactEvent(rc, newID, parts)
    ELSE NewArtifactUpdateEvent(rc, p.responseID, parts)

\* eventProcessor.process: p is the processor before the call, newID the ID
\* a2a.NewArtifactID() would hand out.  Returns the error, the artifact update
\* (or Nil) and the processor after the call.
process(p, rc, event, newID) ==
    IF event = Nil THEN [err |-> "", result |-> Nil, p |-> p]
    ELSE
    LET meta == toInvocationMeta(rc)
        eventMeta == toEventMeta(meta, event)
    IN
    IF eventMeta.err # "" THEN [err |-> eventMeta.err, result |-> Nil, p |-> p]
    ELSE
    LET te1 == IF event.ErrorCode # "" /\ ~Has(p.terminalEvents, TaskStateFailed)
               THEN Put(p.terminalEvents, TaskStateFailed,
                        toTaskFailedUpdateEvent(rc, errorFromResponse(event), eventMeta.val))
               ELSE p.terminalEvents
    IN
    IF event.Content = Nil \/ Len(event.Content.Parts) = 0
    THEN [err |-> "", result |-> Nil, p |-> [p EXCEPT !.terminalEvents = te1]]
    ELSE
    LET te2 == IF isInputRequired(event, event.Content.Parts)
               THEN Put(te1, TaskStateFailed,
                        [NewStatusUpdateEvent(rc, TaskStateInputRequired, Nil)
                         EXCEPT !.Final = TRUE])
               ELSE te1
        parts == ToA2AParts(event.Content.Parts, event.LongRunningToolIDs)
    IN
    IF parts.err # ""
    THEN [err |-> parts.err, result |-> Nil, p |-> [p EXCEPT !.terminalEvents = te2]]
    ELSE
    LET result == newArtifactResult(p, rc, newID, parts.val)
    IN [err |-> "",
        result |-> IF DOMAIN eventMeta.val # {}
                   THEN [result EXCEPT !.Metadata = eventMeta.val] ELSE result,
        p |-> [responseID |-> result.ArtifactID, terminalEvents |-> te2]]

TerminalStatus(p, rc) ==
    IF Has(p.terminalEvents, TaskStateFailed) THEN p.terminalEvents[TaskStateFailed]
    ELSE IF Has(p.terminalEvents, TaskStateInputRequired)
    THEN p.terminalEvents[TaskStateInputRequired]
    ELSE [NewStatusUpdateEvent(rc, TaskStateCompleted, Nil)
          EXCEPT !.Metadata = toInvocationMeta(rc).eventMeta, !.Final = TRUE]

\* the loop over the terminal slot without its early return
makeTerminalEvents_noEarlyReturn(p, rc) ==
    (IF p.responseID # ""
     THEN <<[NewArtifactUpdateEvent(rc, p.responseID, <<>>) EXCEPT !.LastChunk = TRUE]>>
     ELSE <<>>)
    \o (IF Has(p.terminalEvents, TaskStateFailed) \/ Has(p.terminalEvents, TaskStateInputRequired)
        THEN <<TerminalStatus(p, rc)>> ELSE <<>>)
    \o <<[NewStatusUpdateEvent(rc, TaskStateCompleted, Nil)
          EXCEPT !.Metadata = toInvocationMeta(rc).eventMeta, !.Final = TRUE]>>

\* the terminal status ahead of the closing artifact update
makeTerminalEvents_statusFirst(p, rc) ==
    <<TerminalStatus(p, rc)>>
    \o (IF p.responseID # ""
        THEN <<[NewArtifactUpdateEvent(rc, p.responseID, <<>>) EXCEPT !.LastChunk = TRUE]>>
        ELSE <<>>)

makeTerminalEvents(p, rc) ==
    (IF p.responseID # ""
     THEN <<[NewArtifactUpdateEvent(rc, p.responseID, <<>>) EXCEPT !.LastChunk = TRUE]>>
     ELSE <<>>) \o <<TerminalStatus(p, rc)>>

makeTaskFailedEvent(rc, cause, event) ==
    LET meta == toInvocationMeta(rc)
        eventMeta == IF event # Nil THEN toEventMeta(meta, event) ELSE [err |-> "nil", val |-> Nil]
    IN toTaskFailedUpdateEvent(rc, cause,
                               IF eventMeta.err = "" THEN eventMeta.val ELSE meta.eventMeta)

----------------------------------------------------------------------------
(* server role: inputs *)

TextPartOf(text) == [kind |-> "text", Text |-> text, Metadata |-> Nil]

DataPart(data, meta) == [kind |-> "data", Data |-> data, Metadata |-> meta]

NewMessage(role, parts) ==
    [kind |-> "message", Role |-> role, Parts |-> parts, TaskID |-> "", ContextID |-> ""]

\* request messages: none, a convertible one, one whose file part is not base64
RequestMessages ==
    { Nil,
      NewMessage(MessageRoleUser, <<TextPartOf("hello")>>),
      NewMessage(MessageRoleUser,
                 <<[kind |-> "file",
                    File |-> [kind |-> "bytes", Name |-> "", MimeType |-> "", Bytes |-> "%%"],
                    Metadata |-> Nil]>>) }

RequestContexts ==
    { [Message |-> m, StoredTask |-> st, TaskID |-> "task-1", ContextID |-> "ctx-1"] :
        m \in RequestMessages,
        st \in {Nil, [TaskID |-> "task-1", ContextID |-> "ctx-1"]} }

ArtifactIDs == {"artifact-1", "artifact-2"}

LocalText(text) ==
    [EmptyEvent EXCEPT !.Author = "local", !.InvocationID = "inv",
                       !.Content = NewContentFromParts(<<NewPartFromText(text)>>, RoleModel)]

LocalCall(id, longRunning) ==
    [EmptyEvent EXCEPT !.Author = "local", !.InvocationID = "inv",
                       !.Content = NewContentFromParts(
                           <<NewPartFromFunctionCall(id, "tool", "")>>, RoleModel),
                       !.LongRunningToolIDs = longRunning]

\* the events a local run can yield
LocalEvents ==
    { Nil,
      [EmptyEvent EXCEPT !.Author = "local"],
      LocalText("hello"),
      LocalText("world"),
      [EmptyEvent EXCEPT !.Author = "local", !.ErrorCode = "E1", !.ErrorMessage = "first"],
      [LocalText("partial") EXCEPT !.ErrorCode = "E2", !.ErrorMessage = "second"],
      LocalCall("call-1", <<"call-1">>),
      LocalCall("call-2", <<"call-1">>),
      [LocalCall("call-1", <<"call-1">>) EXCEPT !.ErrorCode = "E3", !.ErrorMessage = "third"],
      [LocalText("grounded") EXCEPT !.GroundingMetadata = Unserialisable],
      [EmptyEvent EXCEPT !.Author = "local",
                         !.Content = NewContentFromParts(
                             <<NewPartFromFunctionCall("call-3", "tool", Unserialisable)>>,
                             RoleModel)] }

RunErrors == {"run failed"}

SessionKey(rc) ==
    [AppName |-> AppName, UserID |-> toInvocationMeta(rc).userID,
     SessionID |-> toInvocationMeta(rc).sessionID]

----------------------------------------------------------------------------
(* server role: Executor.Execute, one action per step between two calls to *)
(* a collaborator (queue, session service, local run)                      *)

CodecIdle ==
    /\ given = <<>> /\ toolIDs = <<>> /\ genaiParts = <<>> /\ a2aParts = <<>>
    /\ recovered = <<>> /\ codecErr = "" /\ todo = <<>>

AgentIdle == invocations = <<>> /\ world = <<>>

ClientIdle ==
    /\ events = <<>> /\ cfg = Nil /\ resolvedCard = Nil /\ dpc = "idle" /\ msg = Nil
    /\ yielded = <<>> /\ client = "none" /\ destroys = 0 /\ sends = 0
    /\ inbound = <<>> /\ exit = "none"

Init ==
    /\ reqCtx \in RequestContexts
    /\ pc = "start"
    /\ queue = <<>>
    /\ processor = newEventProcessor
    /\ pending = <<>>
    /\ sessions \in {{}, {SessionKey(reqCtx)}}
    /\ sessionCalls = <<>>
    /\ runLog = <<>>
    /\ runEnd = "none"
    /\ ret = "none"
    /\ writeFailed = FALSE
    /\ ClientIdle
    /\ CodecIdle
    /\ AgentIdle

\* queue.Write(ctx, event): ok is the queue's answer
Write(event, ok) ==
    /\ queue' = IF ok THEN Append(queue, event) ELSE queue
    /\ writeFailed' = (writeFailed \/ ~ok)

Return(value) == pc' = "done" /\ ret' = value

\* msg == nil, toGenAIContent fails or runner.New fails: plain error return
ExecuteRejected ==
    /\ pc = "start"
    /\ \E runnerOk \in BOOLEAN :
          \/ reqCtx.Message = Nil
          \/ reqCtx.Message # Nil /\ toGenAIContent(reqCtx.Message).err # ""
          \/ ~runnerOk
    /\ pc' = "rejected"
    /\ ret' = "error"
    /\ UNCHANGED <<reqCtx, queue, processor, pending, sessions, sessionCalls, runLog, runEnd, writeFailed>>
    /\ UNCHANGED <<cvars, pvars, avars>>

\* Submitted is written whether or not the request references a stored task
ExecuteAccepted_alwaysSubmits ==
    /\ pc = "start"
    /\ reqCtx.Message # Nil
    /\ toGenAIContent(reqCtx.Message).err = ""
    /\ pc' = "submitted"
    /\ UNCHANGED <<reqCtx, queue, processor, pending, sessions, sessionCalls, runLog, runEnd, ret, writeFailed>>
    /\ UNCHANGED <<cvars, pvars, avars>>

ExecuteAccepted ==
    /\ pc = "start"
    /\ reqCtx.Message # Nil
    /\ toGenAIContent(reqCtx.Message).err = ""
    /\ pc' = IF reqCtx.StoredTask = Nil THEN "submitted" ELSE "prepareSession"
    /\ UNCHANGED <<reqCtx, queue, processor, pending, sessions, sessionCalls, runLog, runEnd, ret, writeFailed>>
    /\ UNCHANGED <<cvars, pvars, avars>>

WriteSubmitted ==
    /\ pc = "submitted"
    /\ \E ok \in BOOLEAN :
          /\ Write(NewStatusUpdateEvent(reqCtx, TaskStateSubmitted, Nil), ok)
          /\ IF ok THEN pc' = "prepareSession" /\ ret' = ret ELSE Return("error")
    /\ UNCHANGED <<reqCtx, processor, pending, sessions, sessionCalls, runLog, runEnd>>
    /\ UNCHANGED <<cvars, pvars, avars>>

\* service.Get(AppName, userID, sessionID) and its answer
GetCall(found) == [op |-> "Get", key |-> SessionKey(reqCtx), found |-> found]

\* service.Create(AppName, userID, sessionID) and its answer
CreateCall(ok) == [op |-> "Create", key |-> SessionKey(reqCtx), ok |-> ok]

\* Create is issued although Get found the session
PrepareSessionOk_alwaysCreates ==
    /\ pc = "prepareSession"
    /\ \E getOk \in BOOLEAN :
          /\ sessions' = sessions \cup {SessionKey(reqCtx)}
          /\ sessionCalls' = sessionCalls
                \o <<GetCall(getOk /\ SessionKey(reqCtx) \in sessions), CreateCall(TRUE)>>
    /\ pc' = "working"
    /\ UNCHANGED <<reqCtx, queue, processor, pending, runLog, runEnd, ret, writeFailed>>
    /\ UNCHANGED <<cvars, pvars, avars>>

\* prepareSession returns nil: Get found the session, or Create made it
PrepareSessionOk ==
    /\ pc = "prepareSession"
    /\ \E getOk \in BOOLEAN :
          \/ /\ getOk /\ SessionKey(reqCtx) \in sessions
             /\ sessions' = sessions
             /\ sessionCalls' = sessionCalls \o <<GetCall(TRUE)>>
          \/ /\ ~(getOk /\ SessionKey(reqCtx) \in sessions)
             /\ sessions' = sessions \cup {SessionKey(reqCtx)}
             /\ sessionCalls' = sessionCalls \o <<GetCall(FALSE), CreateCall(TRUE)>>
    /\ pc' = "working"
    /\ UNCHANGED <<reqCtx, queue, processor, pending, runLog, runEnd, ret, writeFailed>>
    /\ UNCHANGED <<cvars, pvars, avars>>

\* Get did not find the session and Create failed: Failed status, return
PrepareSessionFailed ==
    /\ pc = "prepareSession"
    /\ \E getOk \in BOOLEAN : ~(getOk /\ SessionKey(reqCtx) \in sessions)
    /\ sessionCalls' = sessionCalls \o <<GetCall(FALSE), CreateCall(FALSE)>>
    /\ \E ok \in BOOLEAN :
          /\ Write(toTaskFailedUpdateEvent(reqCtx, "failed to create a session: create error",
                                           toInvocationMeta(reqCtx).eventMeta), ok)
          /\ Return(IF ok THEN "nil" ELSE "error")
    /\ UNCHANGED <<reqCtx, processor, pending, sessions, runLog, runEnd>>
    /\ UNCHANGED <<cvars, pvars, avars>>

WriteWorking ==
    /\ pc = "working"
    /\ \E ok \in BOOLEAN :
          /\ Write([NewStatusUpdateEvent(reqCtx, TaskStateWorking, Nil)
                    EXCEPT !.Metadata = toInvocationMeta(reqCtx).eventMeta], ok)
          /\ IF ok THEN pc' = "run" /\ ret' = ret ELSE Return("error")
    /\ processor' = newEventProcessor
    /\ UNCHANGED <<reqCtx, pending, sessions, sessionCalls, runLog, runEnd>>
    /\ UNCHANGED <<cvars, pvars, avars>>

\* the artifact is closed before the Failed status is written
RunYieldsError_closesArtifact ==
    /\ pc = "run"
    /\ \E err \in RunErrors, ok \in BOOLEAN :
          /\ runLog' = Append(runLog, [event |-> Nil, err |-> err])
          /\ queue' = IF ok
                      THEN SubSeq(makeTerminalEvents(processor, reqCtx), 1,
                                  Len(makeTerminalEvents(processor, reqCtx)) - 1)
                           \o <<makeTaskFailedEvent(reqCtx, "agent run failed: " \o err, Nil)>>
                      ELSE queue
          /\ writeFailed' = (writeFailed \/ ~ok)
          /\ Return(IF ok THEN "nil" ELSE "error")
    /\ runEnd' = "runError"
    /\ UNCHANGED <<reqCtx, processor, pending, sessions, sessionCalls>>
    /\ UNCHANGED <<cvars, pvars, avars>>

\* a failure of the local run is returned as an error
RunYieldsError_hardError ==
    /\ pc = "run"
    /\ \E err \in RunErrors, ok \in BOOLEAN :
          /\ runLog' = Append(runLog, [event |-> Nil, err |-> err])
          /\ Write(makeTaskFailedEvent(reqCtx, "agent run failed: " \o err, Nil), ok)
          /\ Return("error")
    /\ runEnd' = "runError"
    /\ UNCHANGED <<reqCtx, processor, pending, sessions, sessionCalls>>
    /\ UNCHANGED <<cvars, pvars, avars>>

\* r.Run yields (nil, err)
RunYieldsError ==
    /\ pc = "run"
    /\ \E err \in RunErrors, ok \in BOOLEAN :
          /\ runLog' = Append(runLog, [event |-> Nil, err |-> err])
          /\ Write(makeTaskFailedEvent(reqCtx, "agent run failed: " \o err, Nil), ok)
          /\ Return(IF ok THEN "nil" ELSE "error")
    /\ runEnd' = "runError"
    /\ UNCHANGED <<reqCtx, processor, pending, sessions, sessionCalls>>
    /\ UNCHANGED <<cvars, pvars, avars>>

\* the Failed status is written but the loop over the run goes on
RunYieldsUnprocessable_goesOn ==
    /\ pc = "run"
    /\ Len(runLog) < MaxRunEvents
    /\ \E event \in LocalEvents, newID \in ArtifactIDs, ok \in BOOLEAN :
          LET r == process(processor, reqCtx, event, newID) IN
          /\ r.err # ""
          /\ runLog' = Append(runLog, [event |-> event, err |-> ""])
          /\ processor' = r.p
          /\ Write(makeTaskFailedEvent(reqCtx, "processor failed: " \o r.err, event), ok)
          /\ IF ok THEN pc' = pc /\ ret' = ret ELSE Return("error")
    /\ runEnd' = "processError"
    /\ UNCHANGED <<reqCtx, pending, sessions, sessionCalls>>
    /\ UNCHANGED <<cvars, pvars, avars>>

\* r.Run yields (event, nil) and processor.process returns an error
RunYieldsUnprocessable ==
    /\ pc = "run"
    /\ Len(runLog) < MaxRunEvents
    /\ \E event \in LocalEvents, newID \in ArtifactIDs, ok \in BOOLEAN :
          LET r == process(processor, reqCtx, event, newID) IN
          /\ r.err # ""
          /\ runLog' = Append(runLog, [event |-> event, err |-> ""])
          /\ processor' = r.p
          /\ Write(makeTaskFailedEvent(reqCtx, "processor failed: " \o r.err, event), ok)
          /\ Return(IF ok THEN "nil" ELSE "error")
    /\ runEnd' = "processError"
    /\ UNCHANGED <<reqCtx, pending, sessions, sessionCalls>>
    /\ UNCHANGED <<cvars, pvars, avars>>

\* r.Run yields (event, nil), processor.process succeeds, its result (if any)
\* is written
RunYieldsEvent ==
    /\ pc = "run"
    /\ Len(runLog) < MaxRunEvents
    /\ \E event \in LocalEvents, newID \in ArtifactIDs, ok \in BOOLEAN :
          LET r == process(processor, reqCtx, event, newID) IN
          /\ r.err = ""
          /\ runLog' = Append(runLog, [event |-> event, err |-> ""])
          /\ processor' = r.p
          /\ IF r.result # Nil
             THEN /\ Write(r.result, ok)
                  /\ IF ok THEN pc' = "run" /\ ret' = ret /\ runEnd' = runEnd
                     ELSE Return("error") /\ runEnd' = "writeError"
             ELSE /\ ok
                  /\ UNCHANGED <<queue, writeFailed, pc, ret, runEnd>>
    /\ UNCHANGED <<reqCtx, pending, sessions, sessionCalls>>
    /\ UNCHANGED <<cvars, pvars, avars>>

\* r.Run is exhausted: makeTerminalEvents
RunEnds ==
    /\ pc = "run"
    /\ pc' = "terminal"
    /\ runEnd' = "normal"
    /\ pending' = makeTerminalEvents(processor, reqCtx)
    /\ UNCHANGED <<reqCtx, queue, processor, sessions, sessionCalls, runLog, ret, writeFailed>>
    /\ UNCHANGED <<cvars, pvars, avars>>

\* a failed write does not end the loop over the terminal events
WriteTerminal_keepsWriting ==
    /\ pc = "terminal"
    /\ pending # <<>>
    /\ \E ok \in BOOLEAN :
          /\ Write(Head(pending), ok)
          /\ pending' = Tail(pending)
          /\ IF Tail(pending) = <<>>
             THEN Return(IF writeFailed \/ ~ok THEN "error" ELSE "nil")
             ELSE pc' = pc /\ ret' = (IF ok THEN ret ELSE "error")
    /\ UNCHANGED <<reqCtx, processor, sessions, sessionCalls, runLog, runEnd>>
    /\ UNCHANGED <<cvars, pvars, avars>>

\* one iteration of the loop over processor.makeTerminalEvents()
WriteTerminal ==
    /\ pc = "terminal"
    /\ pending # <<>>
    /\ \E ok \in BOOLEAN :
          /\ Write(Head(pending), ok)
          /\ pending' = Tail(pending)
          /\ IF ~ok THEN Return("error")
             ELSE IF Tail(pending) = <<>> THEN Return("nil")
             ELSE pc' = pc /\ ret' = ret
    /\ UNCHANGED <<reqCtx, processor, sessions, sessionCalls, runLog, runEnd>>
    /\ UNCHANGED <<cvars, pvars, avars>>

Next ==
    \/ ExecuteRejected
    \/ ExecuteAccepted
    \/ WriteSubmitted
    \/ PrepareSessionOk
    \/ PrepareSessionFailed
    \/ WriteWorking
    \/ RunYieldsError
    \/ RunYieldsUnprocessable
    \/ RunYieldsEvent
    \/ RunEnds
    \/ WriteTerminal

Spec == Init /\ [][Next]_vars

----------------------------------------------------------------------------
(* server role: properties *)

IsStatus(e) == e.kind = "status-update"
IsArtifact(e) == e.kind = "artifact-update"
IsFinalStatus(e) == IsStatus(e) /\ e.Final

NumFinal(q) == Cardinality({i \in 1..Len(q) : IsFinalStatus(q[i])})

\* Execute has returned after passing request validation, no write failed
ExecuteCompleted == pc = "done" /\ ~writeFailed

\* C1: an Execute invocation that passed request validation and saw no queue
\* write fail has written exactly one status update with final=true, however
\* the local run went; no invocation ever writes two.
C1_ExactlyOneFinal ==
    /\ NumFinal(queue) <= 1
    /\ ExecuteCompleted => (ret = "nil" /\ NumFinal(queue) = 1)

C1_Witness ==
    /\ ExecuteCompleted /\ runEnd = "normal" /\ NumFinal(queue) = 1
    /\ \E i \in 1..Len(runLog) : runLog[i].event # Nil /\ runLog[i].event.ErrorCode # ""
    /\ \E i \in 1..Len(runLog) :
          /\ runLog[i].event # Nil /\ runLog[i].event.Content # Nil
          /\ isInputRequired(runLog[i].event, runLog[i].event.Content.Parts)

HasErrorCode(item) == item.event # Nil /\ item.event.ErrorCode # ""

\* a function call whose ID is in the event's LongRunningToolIDs
QualifiesInputRequired(item) ==
    /\ item.event # Nil /\ item.event.Content # Nil
    /\ isInputRequired(item.event, item.event.Content.Parts)

ExpectedTerminalState(log) ==
    IF \E i \in 1..Len(log) : HasErrorCode(log[i]) THEN TaskStateFailed
    ELSE IF \E i \in 1..Len(log) : QualifiesInputRequired(log[i]) THEN TaskStateInputRequired
    ELSE TaskStateCompleted

TerminalWritten(q) == q[CHOOSE i \in 1..Len(q) : IsFinalStatus(q[i])]

\* C2: after a normal end of the local run the terminal status is Failed if
\* any event had an error code (wherever an InputRequired-qualifying event
\* stands), else InputRequired if any event qualified, else Completed.
C2_TerminalPriority ==
    (ExecuteCompleted /\ runEnd = "normal")
        => TerminalWritten(queue).State = ExpectedTerminalState(runLog)

Artifacts(q) == SelectSeq(q, IsArtifact)

HasContent(item) ==
    item.event # Nil /\ item.event.Content # Nil /\ Len(item.event.Content.Parts) > 0

PlainRun(log) ==
    \A i \in 1..Len(log) :
        /\ log[i].err = ""
        /\ ~HasErrorCode(log[i])
        /\ ~QualifiesInputRequired(log[i])

\* what a consumer of the queue observes of one event
Observed(e) ==
    IF IsStatus(e)
    THEN [kind |-> e.kind, State |-> e.State, Final |-> e.Final]
    ELSE [kind |-> e.kind, Parts |-> e.Parts, Append |-> e.Append, LastChunk |-> e.LastChunk]

ExpectedPlainOutput(rc, log) ==
    LET content == SelectSeq(log, HasContent)
        n == Len(content)
    IN (IF rc.StoredTask = Nil
        THEN <<[kind |-> "status-update", State |-> TaskStateSubmitted, Final |-> FALSE]>>
        ELSE <<>>)
       \o <<[kind |-> "status-update", State |-> TaskStateWorking, Final |-> FALSE]>>
       \o [i \in 1..n |->
              [kind |-> "artifact-update",
               Parts |-> ToA2AParts(content[i].event.Content.Parts,
                                    content[i].event.LongRunningToolIDs).val,
               Append |-> (i > 1), LastChunk |-> FALSE]]
       \o (IF n > 0
           THEN <<[kind |-> "artifact-update", Parts |-> <<>>, Append |-> TRUE,
                   LastChunk |-> TRUE]>>
           ELSE <<>>)
       \o <<[kind |-> "status-update", State |-> TaskStateCompleted, Final |-> TRUE]>>

\* C4: a run of n content events without error code or long-running call that
\* ends normally makes Execute write, after the optional Submitted, Working,
\* the n artifact updates in event order, the closing update, then Completed;
\* with n = 0 it writes Working then Completed only.
C4_PlainRunOutput ==
    (ExecuteCompleted /\ runEnd = "normal" /\ PlainRun(runLog))
        => [i \in 1..Len(queue) |-> Observed(queue[i])] = ExpectedPlainOutput(reqCtx, runLog)

C4_Witness ==
    /\ ExecuteCompleted /\ runEnd = "normal" /\ PlainRun(runLog)
    /\ Len(SelectSeq(runLog, HasContent)) = 2
    /\ Len(runLog) = 3

C4_WitnessEmpty ==
    /\ ExecuteCompleted /\ runEnd = "normal" /\ PlainRun(runLog)
    /\ Len(runLog) = 2
    /\ Len(SelectSeq(runLog, HasContent)) = 0

----------------------------------------------------------------------------
(* client role: correlation metadata and the inbound event translator *)

RemoteName == "remote"

\* the invocation context of one a2aAgent.run
InvocationCtx == [AgentName |-> RemoteName, InvocationID |-> "inv-1", Branch |-> ""]

ToADKMetaKey(key) == "a2a:" \o key

customMetaTaskIDKey == ToADKMetaKey("task_id")
customMetaContextIDKey == ToADKMetaKey("context_id")

NewEvent(invocationID) == [EmptyEvent EXCEPT !.InvocationID = invocationID]

NewRemoteAgentEvent(ctx) ==
    [NewEvent(ctx.InvocationID) EXCEPT !.Author = ctx.AgentName, !.Branch = ctx.Branch]

ToCustomMetadata(taskID, ctxID) ==
    Put(Put(EmptyMap, customMetaTaskIDKey, taskID), customMetaContextIDKey, ctxID)

GetA2ATaskInfo(event) ==
    [taskID |-> IF event # Nil /\ Has(event.CustomMetadata, customMetaTaskIDKey)
                THEN event.CustomMetadata[customMetaTaskIDKey] ELSE "",
     contextID |-> IF event # Nil /\ Has(event.CustomMetadata, customMetaContextIDKey)
                   THEN event.CustomMetadata[customMetaContextIDKey] ELSE ""]

EventToMessage(event) ==
    LET parts == ToA2AParts(event.Content.Parts, event.LongRunningToolIDs)
    IN IF parts.err # ""
       THEN [err |-> "part conversion failed: " \o parts.err, val |-> Nil]
       ELSE [err |-> "",
             val |-> NewMessage(IF event.Author = "user" THEN MessageRoleUser
                                ELSE MessageRoleAgent, parts.val)]

toGenAIRole(role) == IF role = MessageRoleUser THEN RoleUser ELSE RoleModel

\* results of the translator: an event, no event, an error, or a nil
\* dereference (panic)
Translated(event) == [err |-> "", val |-> event, panic |-> FALSE]
NoEvent == [err |-> "", val |-> Nil, panic |-> FALSE]
Failure(err) == [err |-> err, val |-> Nil, panic |-> FALSE]
Panic == [err |-> "", val |-> Nil, panic |-> TRUE]

\* the content's role is model whatever the message's role
messageEvent_modelRole(ctx, m, parts) ==
    IF parts.err # "" THEN Failure(parts.err)
    ELSE Translated(
           [NewRemoteAgentEvent(ctx) EXCEPT
              !.Content = IF Len(parts.val) > 0
                          THEN NewContentFromParts(parts.val, RoleModel)
                          ELSE Nil,
              !.CustomMetadata = IF m.TaskID # "" \/ m.ContextID # ""
                                 THEN ToCustomMetadata(m.TaskID, m.ContextID)
                                 ELSE EmptyMap])

\* messageToEvent once msg.Parts are converted
messageEvent(ctx, m, parts) ==
    IF parts.err # "" THEN Failure(parts.err)
    ELSE Translated(
           [NewRemoteAgentEvent(ctx) EXCEPT
              !.Content = IF Len(parts.val) > 0
                          THEN NewContentFromParts(parts.val, toGenAIRole(m.Role))
                          ELSE Nil,
              !.CustomMetadata = IF m.TaskID # "" \/ m.ContextID # ""
                                 THEN ToCustomMetadata(m.TaskID, m.ContextID)
                                 ELSE EmptyMap])

messageToEvent(ctx, m) == messageEvent(ctx, m, toGenAIParts(m.Parts))

getLongRunningToolIDs(parts, converted) ==
    LET isLongRunning(i) ==
            /\ parts[i].kind = "data"
            /\ parts[i].Metadata # Nil
            /\ Has(parts[i].Metadata, a2aDataPartMetaLongRunningKey)
            /\ parts[i].Metadata[a2aDataPartMetaLongRunningKey] = TRUE
            /\ converted[i].FunctionCall # Nil
        idx == SelectSeq([i \in 1..Len(parts) |-> i], isLongRunning)
    IN [k \in 1..Len(idx) |-> converted[idx[k]].FunctionCall.ID]

\* artifactToEvent once artifact.Parts are converted
artifactEvent(ctx, parts) ==
    IF parts.err # "" THEN Failure(parts.err)
    ELSE Translated([NewRemoteAgentEvent(ctx) EXCEPT
                        !.Content = NewContentFromParts(parts.val, RoleModel)])

artifactToEvent(ctx, artifact) == artifactEvent(ctx, toGenAIParts(artifact.Parts))

\* one iteration of the loop of taskToEvent over task.Artifacts
oneArtifact(artifact, artifactParts, rest) ==
    IF artifactParts.err # ""
    THEN [err |-> "failed to convert artifact parts: " \o artifactParts.err,
          parts |-> <<>>, ids |-> <<>>]
    ELSE IF rest.err # "" THEN rest
    ELSE [err |-> "",
          parts |-> artifactParts.val \o rest.parts,
          ids |-> getLongRunningToolIDs(artifact.Parts, artifactParts.val) \o rest.ids]

\* the loop of taskToEvent over task.Artifacts, from artifact i on
RECURSIVE taskArtifactParts(_, _)
taskArtifactParts(artifacts, i) ==
    IF i > Len(artifacts) THEN [err |-> "", parts |-> <<>>, ids |-> <<>>]
    ELSE oneArtifact(artifacts[i], toGenAIParts(artifacts[i].Parts),
                     taskArtifactParts(artifacts, i + 1))

\* the long-running IDs are set whatever the task's state
taskEvent_anyState(ctx, task, arts, msgParts) ==
    IF arts.err # "" THEN Failure(arts.err)
    ELSE IF msgParts.err # ""
    THEN Failure("failed to convert status message parts: " \o msgParts.err)
    ELSE Translated(
           [NewRemoteAgentEvent(ctx) EXCEPT
              !.Content = IF Len(arts.parts) + Len(msgParts.val) > 0
                          THEN NewContentFromParts(arts.parts \o msgParts.val, RoleModel)
                          ELSE Nil,
              !.CustomMetadata = ToCustomMetadata(task.ID, task.ContextID),
              !.LongRunningToolIDs =
                  arts.ids \o (IF task.Status.Message # Nil
                               THEN getLongRunningToolIDs(task.Status.Message.Parts,
                                                          msgParts.val)
                               ELSE <<>>)])

\* taskToEvent once the artifacts' and the status message's parts are converted
taskEvent(ctx, task, arts, msgParts) ==
    IF arts.err # "" THEN Failure(arts.err)
    ELSE IF msgParts.err # ""
    THEN Failure("failed to convert status message parts: " \o msgParts.err)
    ELSE Translated(
           [NewRemoteAgentEvent(ctx) EXCEPT
              !.Content = IF Len(arts.parts) + Len(msgParts.val) > 0
                          THEN NewContentFromParts(arts.parts \o msgParts.val, RoleModel)
                          ELSE Nil,
              !.CustomMetadata = ToCustomMetadata(task.ID, task.ContextID),
              !.LongRunningToolIDs =
                  IF task.Status.State # TaskStateInputRequired THEN <<>>
                  ELSE arts.ids \o (IF task.Status.Message # Nil
                                    THEN getLongRunningToolIDs(task.Status.Message.Parts,
                                                               msgParts.val)
                                    ELSE <<>>)])

taskToEvent(ctx, task) ==
    taskEvent(ctx, task, taskArtifactParts(task.Artifacts, 1),
              IF task.Status.Message # Nil THEN toGenAIParts(task.Status.Message.Parts)
              ELSE [err |-> "", val |-> <<>>])

\* the event is not marked turn-complete
finalStatusEvent_notComplete(ctx, update, parts) ==
    IF parts.err # "" THEN Failure(parts.err)
    ELSE Translated(
           [NewRemoteAgentEvent(ctx) EXCEPT
              !.Content = IF Len(parts.val) > 0
                          THEN NewContentFromParts(parts.val, RoleModel) ELSE Nil,
              !.CustomMetadata = ToCustomMetadata(update.TaskID, update.ContextID)])

\* finalTaskStatusUpdateToEvent once the status message's parts are converted
finalStatusEvent(ctx, update, parts) ==
    IF parts.err # "" THEN Failure(parts.err)
    ELSE Translated(
           [NewRemoteAgentEvent(ctx) EXCEPT
              !.Content = IF Len(parts.val) > 0
                          THEN NewContentFromParts(parts.val, RoleModel) ELSE Nil,
              !.CustomMetadata = ToCustomMetadata(update.TaskID, update.ContextID),
              !.TurnComplete = TRUE])

finalTaskStatusUpdateToEvent(ctx, update) ==
    finalStatusEvent(ctx, update,
                     IF update.Message # Nil THEN toGenAIParts(update.Message.Parts)
                     ELSE [err |-> "", val |-> <<>>])

\* the artifact-update case of ToSessionEvent, r being artifactToEvent's result
artifactUpdateEvent(event, r) ==
    IF r.err # "" THEN Failure("artifact update event conversion failed: " \o r.err)
    ELSE Translated(
           [r.val EXCEPT
              !.LongRunningToolIDs = getLongRunningToolIDs(event.Parts, r.val.Content.Parts),
              !.CustomMetadata = ToCustomMetadata(event.TaskID, event.ContextID)])

\* the non-final status case of ToSessionEvent, r being messageToEvent's
\* result: the event is written to before the error is looked at, and its
\* Content is read without a nil check
statusUpdateEvent(event, r) ==
    IF r.err # "" THEN Panic
    ELSE IF r.val.Content = Nil THEN Panic
    ELSE Translated(
           [r.val EXCEPT
              !.CustomMetadata = ToCustomMetadata(event.TaskID, event.ContextID),
              !.Content.Parts = [i \in 1..Len(r.val.Content.Parts) |->
                                   [r.val.Content.Parts[i] EXCEPT !.Thought = TRUE]]])

\* an event of unknown kind is skipped like an empty artifact update
ToSessionEvent_skipsUnknown(ctx, event) ==
    IF event.kind = "task" THEN taskToEvent(ctx, event)
    ELSE IF event.kind = "message" THEN messageToEvent(ctx, event)
    ELSE IF event.kind = "artifact-update"
    THEN IF Len(event.Parts) = 0 THEN NoEvent
         ELSE artifactUpdateEvent(event,
                artifactToEvent(ctx, [ID |-> event.ArtifactID, Parts |-> event.Parts]))
    ELSE IF event.kind = "status-update"
    THEN IF event.Final THEN finalTaskStatusUpdateToEvent(ctx, event)
         ELSE IF event.Message = Nil THEN NoEvent
         ELSE statusUpdateEvent(event, messageToEvent(ctx, event.Message))
    ELSE NoEvent

ToSessionEvent(ctx, event) ==
    IF event.kind = "task" THEN taskToEvent(ctx, event)
    ELSE IF event.kind = "message" THEN messageToEvent(ctx, event)
    ELSE IF event.kind = "artifact-update"
    THEN IF Len(event.Parts) = 0 THEN NoEvent
         ELSE artifactUpdateEvent(event,
                artifactToEvent(ctx, [ID |-> event.ArtifactID, Parts |-> event.Parts]))
    ELSE IF event.kind = "status-update"
    THEN IF event.Final THEN finalTaskStatusUpdateToEvent(ctx, event)
         ELSE IF event.Message = Nil THEN NoEvent
         ELSE statusUpdateEvent(event, messageToEvent(ctx, event.Message))
    ELSE Failure("unknown event type")

----------------------------------------------------------------------------
(* client role: utils.go, the outbound message *)

FormatV(v) == "map[" \o v \o "]"

isFunctionCallEvent(event, callID) ==
    /\ event # Nil
    /\ event.Content # Nil
    /\ \E i \in 1..Len(event.Content.Parts) :
          /\ event.Content.Parts[i].FunctionCall # Nil
          /\ event.Content.Parts[i].FunctionCall.ID = callID

\* call ID of the first part with a FunctionResponse
getFunctionResponseCallID(event) ==
    LET resp == IF event.Content = Nil THEN {}
                ELSE {i \in 1..Len(event.Content.Parts) :
                         event.Content.Parts[i].FunctionResponse # Nil}
    IN IF resp = {} THEN [ok |-> FALSE, id |-> ""]
       ELSE [ok |-> TRUE,
             id |-> event.Content.Parts[CHOOSE i \in resp : \A j \in resp : i <= j]
                        .FunctionResponse.ID]

\* the backward loop looks at events of the remote agent only
RECURSIVE findFunctionCall_remoteOnly(_, _, _, _)
findFunctionCall_remoteOnly(log, i, fnCallID, candidate) ==
    IF i < 1 THEN Nil
    ELSE IF log[i].Author # RemoteName \/ ~isFunctionCallEvent(log[i], fnCallID)
    THEN findFunctionCall_remoteOnly(log, i - 1, fnCallID, candidate)
    ELSE [event |-> candidate,
          taskID |-> GetA2ATaskInfo(log[i]).taskID,
          contextID |-> GetA2ATaskInfo(log[i]).contextID]

\* the backward loop of getUserFunctionCallAt, from event i down
RECURSIVE findFunctionCall(_, _, _, _)
findFunctionCall(log, i, fnCallID, candidate) ==
    IF i < 1 THEN Nil
    ELSE IF ~isFunctionCallEvent(log[i], fnCallID)
    THEN findFunctionCall(log, i - 1, fnCallID, candidate)
    ELSE [event |-> candidate,
          taskID |-> GetA2ATaskInfo(log[i]).taskID,
          contextID |-> GetA2ATaskInfo(log[i]).contextID]

\* index counts from 1; Go's events.Len()-1 is Len(log)
getUserFunctionCallAt(log, index) ==
    IF index < 1 \/ index > Len(log) THEN Nil
    ELSE IF log[index].Author # "user" THEN Nil
    ELSE IF ~getFunctionResponseCallID(log[index]).ok THEN Nil
    ELSE findFunctionCall(log, index - 1, getFunctionResponseCallID(log[index]).id, log[index])

\* the loop of presentAsUserMessage over agentEvent.Content.Parts, from part i on
RECURSIVE presentParts(_, _, _)
presentParts(author, parts, i) ==
    IF i > Len(parts) THEN <<>>
    ELSE LET part == parts[i]
             rest == presentParts(author, parts, i + 1)
         IN IF part.Thought THEN rest
            ELSE IF part.Text # ""
            THEN <<NewPartFromText("[" \o author \o "] said: " \o part.Text)>> \o rest
            ELSE IF part.FunctionCall # Nil
            THEN <<NewPartFromText("[" \o author \o "] called tool " \o part.FunctionCall.Name
                                   \o " with parameters: " \o FormatV(part.FunctionCall.Args))>>
                 \o rest
            ELSE IF part.FunctionResponse # Nil
            THEN <<NewPartFromText("[" \o author \o "] " \o part.FunctionResponse.Name
                                   \o " tool returned result: "
                                   \o FormatV(part.FunctionResponse.Response))>>
                 \o rest
            ELSE <<part>> \o rest

\* the marker stays even when every part of the event was dropped
presentAsUserMessage_orphanMarker(ctx, agentEvent) ==
    LET event == [NewEvent(ctx.InvocationID) EXCEPT !.Author = "user"]
    IN IF agentEvent.Content = Nil THEN event
       ELSE [event EXCEPT !.Content = NewContentFromParts(
                <<NewPartFromText("For context:")>>
                \o presentParts(agentEvent.Author, agentEvent.Content.Parts, 1), RoleUser)]

presentAsUserMessage(ctx, agentEvent) ==
    LET event == [NewEvent(ctx.InvocationID) EXCEPT !.Author = "user"]
    IN IF agentEvent.Content = Nil THEN event
       ELSE LET parts == <<NewPartFromText("For context:")>>
                         \o presentParts(agentEvent.Author, agentEvent.Content.Parts, 1)
            IN IF Len(parts) > 1
               THEN [event EXCEPT !.Content = NewContentFromParts(parts, RoleUser)]
               ELSE event

\* the backward loop of toMissingRemoteSessionParts: index of the last event
\* authored by the remote agent, 0 (Go: -1) when there is none
RECURSIVE lastRemoteResponseIndex(_, _, _)
lastRemoteResponseIndex(ctx, log, i) ==
    IF i < 1 THEN 0
    ELSE IF log[i].Author = ctx.AgentName THEN i
    ELSE lastRemoteResponseIndex(ctx, log, i - 1)

\* the forward loop of toMissingRemoteSessionParts, from event i on
RECURSIVE missingParts(_, _, _)
missingParts(ctx, log, i) ==
    IF i > Len(log) THEN <<>>
    ELSE LET event == IF log[i].Author # "user" /\ log[i].Author # ctx.AgentName
                      THEN presentAsUserMessage(ctx, log[i]) ELSE log[i]
             rest == missingParts(ctx, log, i + 1)
         IN IF event.Content = Nil \/ Len(event.Content.Parts) = 0 THEN rest
            ELSE LET parts == ToA2AParts(event.Content.Parts, event.LongRunningToolIDs)
                 IN IF parts.err # "" THEN rest ELSE parts.val \o rest

\* the scan stops at the first remote event met from the front of the log
toMissingRemoteSessionParts_firstRemote(ctx, log) ==
    LET remote == {i \in 1..Len(log) : log[i].Author = ctx.AgentName}
        b == IF remote = {} THEN 0 ELSE CHOOSE i \in remote : \A j \in remote : i <= j
    IN [parts |-> missingParts(ctx, log, b + 1),
        contextID |-> IF b = 0 THEN "" ELSE GetA2ATaskInfo(log[b]).contextID]

\* the context ID is the last one any remote event of the log carries
toMissingRemoteSessionParts_lastKnownContext(ctx, log) ==
    LET b == lastRemoteResponseIndex(ctx, log, Len(log))
        known == {i \in 1..Len(log) : /\ log[i].Author = ctx.AgentName
                                      /\ GetA2ATaskInfo(log[i]).contextID # ""}
    IN [parts |-> missingParts(ctx, log, b + 1),
        contextID |-> IF known = {} THEN ""
                      ELSE GetA2ATaskInfo(log[CHOOSE i \in known :
                                                 \A j \in known : j <= i]).contextID]

toMissingRemoteSessionParts(ctx, log) ==
    LET b == lastRemoteResponseIndex(ctx, log, Len(log))
    IN [parts |-> missingParts(ctx, log, b + 1),
        contextID |-> IF b = 0 THEN "" ELSE GetA2ATaskInfo(log[b]).contextID]

\* a matching user function response anywhere in the log makes a continuation
newMessage_anyMatch(ctx, log) ==
    LET matches == {k \in 1..Len(log) : getUserFunctionCallAt(log, k) # Nil}
        userFnCall == IF matches = {} THEN Nil
                      ELSE getUserFunctionCallAt(log, CHOOSE k \in matches :
                                                         \A j \in matches : j <= k)
        m == EventToMessage(userFnCall.event)
        diff == toMissingRemoteSessionParts(ctx, log)
    IN IF userFnCall # Nil
       THEN IF m.err # "" THEN m
            ELSE [err |-> "",
                  val |-> [m.val EXCEPT !.TaskID = userFnCall.taskID,
                                        !.ContextID = userFnCall.contextID]]
       ELSE [err |-> "",
             val |-> [NewMessage(MessageRoleUser, diff.parts) EXCEPT
                         !.ContextID = diff.contextID]]

\* the continuation message without the IDs of the matched call
newMessage_untagged(ctx, log) ==
    LET userFnCall == getUserFunctionCallAt(log, Len(log))
        diff == toMissingRemoteSessionParts(ctx, log)
    IN IF userFnCall # Nil
       THEN EventToMessage(userFnCall.event)
       ELSE [err |-> "",
             val |-> [NewMessage(MessageRoleUser, diff.parts) EXCEPT
                         !.ContextID = diff.contextID]]

newMessage(ctx, log) ==
    LET userFnCall == getUserFunctionCallAt(log, Len(log))
        m == EventToMessage(userFnCall.event)
        diff == toMissingRemoteSessionParts(ctx, log)
    IN IF userFnCall # Nil
       THEN IF m.err # "" THEN m
            ELSE [err |-> "",
                  val |-> [m.val EXCEPT !.TaskID = userFnCall.taskID,
                                        !.ContextID = userFnCall.contextID]]
       ELSE [err |-> "",
             val |-> [NewMessage(MessageRoleUser, diff.parts) EXCEPT
                         !.ContextID = diff.contextID]]

----------------------------------------------------------------------------
(* client role: a2a_agent.go *)

toErrorEvent(ctx, err) ==
    [NewRemoteAgentEvent(ctx) EXCEPT
        !.ErrorMessage = err,
        !.CustomMetadata = Put(EmptyMap, ToADKMetaKey("error"), err)]

\* converters.ToMapStructure of a request or of an inbound event
Payload(v) == [json |-> v]

\* the request entry is left out
updateCustomMetadata_responseOnly(event, request, response) ==
    IF request = Nil /\ response = Nil THEN event
    ELSE IF response # Nil
    THEN [event EXCEPT !.CustomMetadata =
             Put(event.CustomMetadata, ToADKMetaKey("response"), Payload(request))]
    ELSE event

\* response is Nil for the error events; both keys are filled from request
updateCustomMetadata(event, request, response) ==
    IF request = Nil /\ response = Nil THEN event
    ELSE LET m1 == IF request # Nil
                   THEN Put(event.CustomMetadata, ToADKMetaKey("request"), Payload(request))
                   ELSE event.CustomMetadata
             m2 == IF response # Nil
                   THEN Put(m1, ToADKMetaKey("response"), Payload(request))
                   ELSE m1
         IN [event EXCEPT !.CustomMetadata = m2]

IsHTTP(source) ==
    \/ Len(source) >= 7 /\ SubSeq(source, 1, 7) = "http://"
    \/ Len(source) >= 8 /\ SubSeq(source, 1, 8) = "https://"

PeerCard == [PreferredTransport |-> "GRPC", URL |-> "passthrough:///bufnet"]

\* resolverOk: the resolver's answer for a URL; readable: os.ReadFile's
\* answer for a path.  json.Unmarshal is handed a nil *a2a.AgentCard and
\* rejects it whatever the file holds.
resolveAgentCard(config, resolverOk, readable) ==
    IF config.AgentCard # Nil THEN [err |-> "", card |-> config.AgentCard]
    ELSE IF IsHTTP(config.AgentCardSource)
    THEN IF resolverOk THEN [err |-> "", card |-> PeerCard]
         ELSE [err |-> "failed to fetch an agent card: resolver error", card |-> Nil]
    ELSE IF ~readable
    THEN [err |-> "failed to read agent card from \"" \o config.AgentCardSource
                  \o "\": no such file", card |-> Nil]
    ELSE [err |-> "failed to unmarshal an agent card: json: Unmarshal(nil *a2a.AgentCard)",
          card |-> Nil]

DefaultTransports == {"JSONRPC"}

\* ClientFactory.CreateFromCard / a2aclient.NewFromCard; dialOk: the
\* transport could be set up
createClient(config, card, dialOk) ==
    LET transports == IF config.ClientFactory # Nil THEN config.ClientFactory.Transports
                      ELSE DefaultTransports
    IN IF card.PreferredTransport \notin transports THEN "no compatible transports found"
       ELSE IF ~dialOk THEN "transport setup failed"
       ELSE ""

----------------------------------------------------------------------------
(* client role: inputs *)

WithMeta(event, taskID, ctxID) ==
    [event EXCEPT !.CustomMetadata = ToCustomMetadata(taskID, ctxID)]

newEventFromParts(author, parts) ==
    [EmptyEvent EXCEPT
        !.Author = author,
        !.Content = IF Len(parts) > 0
                    THEN NewContentFromParts(parts, IF author = "user" THEN RoleUser
                                                    ELSE RoleModel)
                    ELSE Nil]

FilePartOf(name) ==
    [EmptyPart EXCEPT !.FileData = [FileURI |-> "", MIMEType |-> "", DisplayName |-> name]]

UserHello == newEventFromParts("user", <<NewPartFromText("hello")>>)

RemoteCall ==
    [WithMeta(newEventFromParts(RemoteName,
                                <<NewPartFromFunctionCall("call-1", "approve", "")>>),
              "task-2", "ctx-2")
     EXCEPT !.LongRunningToolIDs = <<"call-1">>]

UserResponse ==
    newEventFromParts("user", <<NewPartFromText("responding"),
                                NewPartFromFunctionResponse("call-1", "approve", "ok=yes")>>)

UserBadResponse ==
    newEventFromParts("user",
                      <<NewPartFromFunctionResponse("call-1", "approve", Unserialisable)>>)

\* the events a session log is made of
LogEvents ==
    { UserHello,
      WithMeta(newEventFromParts(RemoteName, <<NewPartFromText("hi")>>), "task-1", "ctx-1"),
      RemoteCall,
      UserResponse,
      newEventFromParts("user", <<NewPartFromFunctionResponse("call-9", "other", ""),
                                  NewPartFromFunctionResponse("call-1", "approve", "ok=yes")>>),
      UserBadResponse,
      NewRemoteAgentEvent(InvocationCtx),
      toErrorEvent(InvocationCtx, "mockExecutor failed"),
      newEventFromParts("other-agent", <<NewPartFromText("foo")>>),
      newEventFromParts("other-agent", <<[NewPartFromText("thinking") EXCEPT !.Thought = TRUE]>>),
      WithMeta(newEventFromParts("other-agent",
                                 <<[NewPartFromText("hmm") EXCEPT !.Thought = TRUE],
                                   NewPartFromFunctionCall("call-1", "get_weather", "city:Warsaw"),
                                   NewPartFromFunctionResponse("call-1", "get_weather", "temp:1C"),
                                   FilePartOf("cat.png")>>),
               "task-3", "ctx-3") }

RECURSIVE SeqsUpTo(_, _)
SeqsUpTo(S, n) ==
    IF n = 0 THEN {<<>>}
    ELSE LET shorter == SeqsUpTo(S, n - 1)
         IN shorter \cup {Append(q, x) : q \in shorter, x \in S}

\* the session logs the driver is run on
DriverLogs ==
    { <<>>,
      <<UserHello>>,
      <<RemoteCall, UserResponse>>,
      <<RemoteCall, UserBadResponse>>,
      <<UserHello, NewRemoteAgentEvent(InvocationCtx)>> }

Configs ==
    { [AgentCard |-> PeerCard, AgentCardSource |-> "",
       ClientFactory |-> [Transports |-> {"GRPC"}], MessageSendConfig |-> Nil],
      [AgentCard |-> PeerCard, AgentCardSource |-> "",
       ClientFactory |-> [Transports |-> {}], MessageSendConfig |-> Nil],
      [AgentCard |-> [PeerCard EXCEPT !.PreferredTransport = "JSONRPC"], AgentCardSource |-> "",
       ClientFactory |-> Nil, MessageSendConfig |-> Nil],
      [AgentCard |-> Nil, AgentCardSource |-> "http://peer",
       ClientFactory |-> [Transports |-> {"GRPC"}], MessageSendConfig |-> Nil],
      [AgentCard |-> Nil, AgentCardSource |-> "/etc/card.json",
       ClientFactory |-> [Transports |-> {"GRPC"}], MessageSendConfig |-> Nil] }

PeerTask == [TaskID |-> "task-7", ContextID |-> "ctx-7"]

LongRunningCallPart(id) ==
    DataPart([id |-> id, name |-> "approve"],
             Put(Put(EmptyMap, a2aDataPartMetaTypeKey, a2aDataPartTypeFunctionCall),
                 a2aDataPartMetaLongRunningKey, TRUE))

\* a task snapshot with two artifacts and a status message
TaskSnapshot(state) ==
    [kind |-> "task", ID |-> "task-7", ContextID |-> "ctx-7",
     Status |-> [State |-> state,
                 Message |-> NewMessageForTask(MessageRoleAgent, PeerTask,
                                               <<TextPartOf("approve?"),
                                                 LongRunningCallPart("call-8")>>)],
     Artifacts |-> <<[ID |-> "artifact-1", Parts |-> <<TextPartOf("draft")>>],
                     [ID |-> "artifact-2", Parts |-> <<LongRunningCallPart("call-7")>>]>>]

\* the events a peer can stream back
WireEvents ==
    { [NewMessage(MessageRoleAgent, <<TextPartOf("hello")>>) EXCEPT
          !.TaskID = "task-7", !.ContextID = "ctx-7"],
      NewMessage(MessageRoleAgent,
                 <<[kind |-> "file",
                    File |-> [kind |-> "bytes", Name |-> "", MimeType |-> "", Bytes |-> "%%"],
                    Metadata |-> Nil]>>),
      NewArtifactEvent(PeerTask, "artifact-7", <<TextPartOf("chunk")>>),
      [NewArtifactUpdateEvent(PeerTask, "artifact-7", <<>>) EXCEPT !.LastChunk = TRUE],
      NewStatusUpdateEvent(PeerTask, TaskStateWorking,
                           NewMessageForTask(MessageRoleAgent, PeerTask,
                                             <<TextPartOf("working on it")>>)),
      NewStatusUpdateEvent(PeerTask, TaskStateWorking,
                           NewMessageForTask(MessageRoleAgent, PeerTask, <<>>)),
      NewStatusUpdateEvent(PeerTask, TaskStateWorking,
                           NewMessageForTask(MessageRoleAgent, PeerTask,
                                             <<DataPart([id |-> Mistyped],
                                                        Put(EmptyMap, a2aDataPartMetaTypeKey,
                                                            a2aDataPartTypeFunctionCall))>>)),
      [NewStatusUpdateEvent(PeerTask, TaskStateCompleted, Nil) EXCEPT !.Final = TRUE],
      [NewStatusUpdateEvent(PeerTask, TaskStateFailed,
                            NewMessageForTask(MessageRoleAgent, PeerTask,
                                              <<TextPartOf("failed")>>))
          EXCEPT !.Final = TRUE],
      [NewStatusUpdateEvent(PeerTask, TaskStateCompleted,
                            NewMessageForTask(MessageRoleAgent, PeerTask, <<>>))
          EXCEPT !.Final = TRUE],
      [NewStatusUpdateEvent(PeerTask, TaskStateCompleted,
                            NewMessageForTask(MessageRoleAgent, PeerTask,
                                              <<DataPart([id |-> Mistyped],
                                                         Put(EmptyMap, a2aDataPartMetaTypeKey,
                                                             a2aDataPartTypeFunctionCall))>>))
          EXCEPT !.Final = TRUE],
      NewMessage(MessageRoleUser, <<TextPartOf("echo")>>),
      NewMessage(MessageRoleAgent, <<>>),
      TaskSnapshot(TaskStateInputRequired),
      TaskSnapshot(TaskStateCompleted),
      [kind |-> "unknown"] }

StreamErrors == {"mockExecutor failed"}

ServerIdle ==
    /\ reqCtx = Nil /\ pc = "idle" /\ queue = <<>> /\ processor = newEventProcessor
    /\ pending = <<>> /\ sessions = {} /\ sessionCalls = <<>>
    /\ runLog = <<>> /\ runEnd = "none"
    /\ ret = "none" /\ writeFailed = FALSE

----------------------------------------------------------------------------
(* client role: a2aAgent.run, one action per step between two calls to a   *)
(* collaborator (resolver, client factory, stream, consumer)               *)

\* yield(event, nil); the consumer's answer only matters inside the stream loop
Yield(event) == yielded' = Append(yielded, [event |-> event, err |-> ""])

\* run returns without destroying the client
Leave_keepsClient(path) ==
    /\ dpc' = "done"
    /\ exit' = path
    /\ UNCHANGED <<client, destroys>>

\* the deferred destroy(client) on the way out
Leave(path) ==
    /\ dpc' = "done"
    /\ exit' = path
    /\ client' = IF client = "open" THEN "destroyed" ELSE client
    /\ destroys' = IF client = "open" THEN destroys + 1 ELSE destroys

DriverInit ==
    /\ events \in DriverLogs
    /\ cfg \in Configs
    /\ resolvedCard = cfg.AgentCard
    /\ dpc = "resolve"
    /\ msg = Nil
    /\ yielded = <<>>
    /\ client = "none"
    /\ destroys = 0
    /\ sends = 0
    /\ inbound = <<>>
    /\ exit = "none"
    /\ ServerIdle
    /\ CodecIdle
    /\ AgentIdle

RunResolveFailed ==
    /\ dpc = "resolve"
    /\ \E resolverOk \in BOOLEAN, readable \in BOOLEAN :
          LET r == resolveAgentCard(cfg, resolverOk, readable) IN
          /\ r.err # ""
          /\ Yield(toErrorEvent(InvocationCtx, "agent card resolution failed: " \o r.err))
    /\ Leave("resolve")
    /\ UNCHANGED <<events, cfg, resolvedCard, msg, sends, inbound>>
    /\ UNCHANGED <<svars, pvars, avars>>

RunResolved ==
    /\ dpc = "resolve"
    /\ \E resolverOk \in BOOLEAN, readable \in BOOLEAN :
          LET r == resolveAgentCard(cfg, resolverOk, readable) IN
          /\ r.err = ""
          /\ resolvedCard' = r.card
    /\ dpc' = "client"
    /\ UNCHANGED <<events, cfg, msg, yielded, client, destroys, sends, inbound, exit>>
    /\ UNCHANGED <<svars, pvars, avars>>

\* the failure is reported but run goes on to build and send the message
RunClientFailed_goesOn ==
    /\ dpc = "client"
    /\ \E dialOk \in BOOLEAN :
          LET err == createClient(cfg, resolvedCard, dialOk) IN
          /\ err # ""
          /\ Yield(toErrorEvent(InvocationCtx, "client creation failed: " \o err))
    /\ dpc' = "newMessage"
    /\ exit' = "client"
    /\ UNCHANGED <<events, cfg, resolvedCard, msg, client, destroys, sends, inbound>>
    /\ UNCHANGED <<svars, pvars, avars>>

RunClientFailed ==
    /\ dpc = "client"
    /\ \E dialOk \in BOOLEAN :
          LET err == createClient(cfg, resolvedCard, dialOk) IN
          /\ err # ""
          /\ Yield(toErrorEvent(InvocationCtx, "client creation failed: " \o err))
    /\ Leave("client")
    /\ UNCHANGED <<events, cfg, resolvedCard, msg, sends, inbound>>
    /\ UNCHANGED <<svars, pvars, avars>>

RunClientCreated ==
    /\ dpc = "client"
    /\ \E dialOk \in BOOLEAN : createClient(cfg, resolvedCard, dialOk) = ""
    /\ client' = "open"
    /\ dpc' = "newMessage"
    /\ UNCHANGED <<events, cfg, resolvedCard, msg, yielded, destroys, sends, inbound, exit>>
    /\ UNCHANGED <<svars, pvars, avars>>

RunMessageFailed ==
    /\ dpc = "newMessage"
    /\ newMessage(InvocationCtx, events).err # ""
    /\ Yield(toErrorEvent(InvocationCtx, "message creation failed: "
                                         \o newMessage(InvocationCtx, events).err))
    /\ Leave("message")
    /\ UNCHANGED <<events, cfg, resolvedCard, msg, sends, inbound>>
    /\ UNCHANGED <<svars, pvars, avars>>

\* the empty message is sent all the same
RunMessageEmpty_sendsAnyway ==
    /\ dpc = "newMessage"
    /\ newMessage(InvocationCtx, events).err = ""
    /\ Len(newMessage(InvocationCtx, events).val.Parts) = 0
    /\ msg' = newMessage(InvocationCtx, events).val
    /\ sends' = sends + 1
    /\ dpc' = "stream"
    /\ UNCHANGED <<events, cfg, resolvedCard, yielded, client, destroys, inbound, exit>>
    /\ UNCHANGED <<svars, pvars, avars>>

RunMessageEmpty ==
    /\ dpc = "newMessage"
    /\ newMessage(InvocationCtx, events).err = ""
    /\ Len(newMessage(InvocationCtx, events).val.Parts) = 0
    /\ msg' = newMessage(InvocationCtx, events).val
    /\ Yield(NewRemoteAgentEvent(InvocationCtx))
    /\ Leave("empty")
    /\ UNCHANGED <<events, cfg, resolvedCard, sends, inbound>>
    /\ UNCHANGED <<svars, pvars, avars>>

\* the re-presentation overwrites the other agents' events in the session log
RunSend_rewritesLog ==
    /\ dpc = "newMessage"
    /\ newMessage(InvocationCtx, events).err = ""
    /\ Len(newMessage(InvocationCtx, events).val.Parts) > 0
    /\ msg' = newMessage(InvocationCtx, events).val
    /\ sends' = sends + 1
    /\ dpc' = "stream"
    /\ events' = [i \in 1..Len(events) |->
                    IF events[i].Author # "user" /\ events[i].Author # InvocationCtx.AgentName
                    THEN presentAsUserMessage(InvocationCtx, events[i])
                    ELSE events[i]]
    /\ UNCHANGED <<cfg, resolvedCard, yielded, client, destroys, inbound, exit>>
    /\ UNCHANGED <<svars, pvars, avars>>

\* the message has parts: client.SendStreamingMessage(ctx, req)
RunSend ==
    /\ dpc = "newMessage"
    /\ newMessage(InvocationCtx, events).err = ""
    /\ Len(newMessage(InvocationCtx, events).val.Parts) > 0
    /\ msg' = newMessage(InvocationCtx, events).val
    /\ sends' = sends + 1
    /\ dpc' = "stream"
    /\ UNCHANGED <<events, cfg, resolvedCard, yielded, client, destroys, inbound, exit>>
    /\ UNCHANGED <<svars, pvars, avars>>

Request == [Message |-> msg, Config |-> cfg.MessageSendConfig]

\* the error event is yielded but the loop keeps reading the stream
StreamError_keepsReading ==
    /\ dpc = "stream"
    /\ Len(inbound) < MaxStreamItems
    /\ \E err \in StreamErrors :
          /\ inbound' = Append(inbound, [event |-> Nil, err |-> err])
          /\ Yield(updateCustomMetadata(toErrorEvent(InvocationCtx, err), Request, Nil))
    /\ UNCHANGED <<events, cfg, resolvedCard, dpc, msg, client, destroys, sends, exit>>
    /\ UNCHANGED <<svars, pvars, avars>>

\* after a stream error the request is sent again
StreamError_resends ==
    /\ dpc = "stream"
    /\ sends <= MaxStreamItems
    /\ \E err \in StreamErrors :
          /\ inbound' = Append(inbound, [event |-> Nil, err |-> err])
          /\ Yield(updateCustomMetadata(toErrorEvent(InvocationCtx, err), Request, Nil))
    /\ sends' = sends + 1
    /\ Leave("streamError")
    /\ UNCHANGED <<events, cfg, resolvedCard, msg>>
    /\ UNCHANGED <<svars, pvars, avars>>

\* the stream yields (nil, err)
StreamError ==
    /\ dpc = "stream"
    /\ \E err \in StreamErrors :
          /\ inbound' = Append(inbound, [event |-> Nil, err |-> err])
          /\ Yield(updateCustomMetadata(toErrorEvent(InvocationCtx, err), Request, Nil))
    /\ Leave("streamError")
    /\ UNCHANGED <<events, cfg, resolvedCard, msg, sends>>
    /\ UNCHANGED <<svars, pvars, avars>>

\* the stream yields an event ToSessionEvent returns an error for
StreamEventUntranslatable ==
    /\ dpc = "stream"
    /\ Len(inbound) < MaxStreamItems
    /\ \E a2aEvent \in WireEvents :
          \E r \in {ToSessionEvent(InvocationCtx, a2aEvent)} :
          /\ ~r.panic /\ r.err # ""
          /\ inbound' = Append(inbound, [event |-> a2aEvent, err |-> ""])
          /\ Yield(updateCustomMetadata(
                     toErrorEvent(InvocationCtx, "failed to convert a2aEvent: " \o r.err),
                     Request, Nil))
    /\ Leave("translateError")
    /\ UNCHANGED <<events, cfg, resolvedCard, msg, sends>>
    /\ UNCHANGED <<svars, pvars, avars>>

\* the stream yields an event ToSessionEvent dereferences nil on: the panic
\* unwinds run (the deferred destroy runs) and reaches the consumer
StreamEventPanics ==
    /\ dpc = "stream"
    /\ Len(inbound) < MaxStreamItems
    /\ \E a2aEvent \in WireEvents :
          /\ ToSessionEvent(InvocationCtx, a2aEvent).panic
          /\ inbound' = Append(inbound, [event |-> a2aEvent, err |-> ""])
    /\ Leave("panic")
    /\ UNCHANGED <<events, cfg, resolvedCard, msg, yielded, sends>>
    /\ UNCHANGED <<svars, pvars, avars>>

\* an event that maps to no event is reported to the consumer as an empty one
StreamEventSkipped_yieldsEmpty ==
    /\ dpc = "stream"
    /\ Len(inbound) < MaxStreamItems
    /\ \E a2aEvent \in WireEvents :
          \E r \in {ToSessionEvent(InvocationCtx, a2aEvent)} :
          /\ ~r.panic /\ r.err = "" /\ r.val = Nil
          /\ inbound' = Append(inbound, [event |-> a2aEvent, err |-> ""])
          /\ Yield(updateCustomMetadata(NewRemoteAgentEvent(InvocationCtx), Request, a2aEvent))
    /\ UNCHANGED <<events, cfg, resolvedCard, dpc, msg, client, destroys, sends, exit>>
    /\ UNCHANGED <<svars, pvars, avars>>

\* the stream yields an event ToSessionEvent maps to no event: continue
StreamEventSkipped ==
    /\ dpc = "stream"
    /\ Len(inbound) < MaxStreamItems
    /\ \E a2aEvent \in WireEvents :
          \E r \in {ToSessionEvent(InvocationCtx, a2aEvent)} :
          /\ ~r.panic /\ r.err = "" /\ r.val = Nil
          /\ inbound' = Append(inbound, [event |-> a2aEvent, err |-> ""])
    /\ UNCHANGED <<events, cfg, resolvedCard, dpc, msg, yielded, client, destroys, sends, exit>>
    /\ UNCHANGED <<svars, pvars, avars>>

\* the stream yields an event that is translated and yielded; goOn is the
\* consumer's answer
StreamEventYielded ==
    /\ dpc = "stream"
    /\ Len(inbound) < MaxStreamItems
    /\ \E a2aEvent \in WireEvents, goOn \in BOOLEAN :
          \E r \in {ToSessionEvent(InvocationCtx, a2aEvent)} :
          /\ ~r.panic /\ r.err = "" /\ r.val # Nil
          /\ inbound' = Append(inbound, [event |-> a2aEvent, err |-> ""])
          /\ Yield(updateCustomMetadata(r.val, Request, a2aEvent))
          /\ IF goOn THEN UNCHANGED <<dpc, client, destroys, exit>>
             ELSE Leave("stopped")
    /\ UNCHANGED <<events, cfg, resolvedCard, msg, sends>>
    /\ UNCHANGED <<svars, pvars, avars>>

\* the stream is exhausted
StreamEnds ==
    /\ dpc = "stream"
    /\ Leave("exhausted")
    /\ UNCHANGED <<events, cfg, resolvedCard, msg, yielded, sends, inbound>>
    /\ UNCHANGED <<svars, pvars, avars>>

DriverNext ==
    \/ RunResolveFailed
    \/ RunResolved
    \/ RunClientFailed
    \/ RunClientCreated
    \/ RunMessageFailed
    \/ RunMessageEmpty
    \/ RunSend
    \/ StreamError
    \/ StreamEventUntranslatable
    \/ StreamEventPanics
    \/ StreamEventSkipped
    \/ StreamEventYielded
    \/ StreamEnds

DriverSpec == DriverInit /\ [][DriverNext]_vars

\* newMessage on every session log up to MaxLogLen events, in an invocation
\* whose client has just been created
DiffInit ==
    /\ events \in SeqsUpTo(LogEvents, MaxLogLen)
    /\ cfg \in {c \in Configs : c.AgentCard = PeerCard /\ c.ClientFactory # Nil
                                /\ c.ClientFactory.Transports # {}}
    /\ resolvedCard = cfg.AgentCard
    /\ dpc = "newMessage"
    /\ msg = Nil
    /\ yielded = <<>>
    /\ client = "open"
    /\ destroys = 0
    /\ sends = 0
    /\ inbound = <<>>
    /\ exit = "none"
    /\ ServerIdle
    /\ CodecIdle
    /\ AgentIdle

DiffNext ==
    \/ RunMessageFailed
    \/ RunMessageEmpty
    \/ RunSend

DiffSpec == DiffInit /\ [][DiffNext]_vars

----------------------------------------------------------------------------
(* properties of the outbound message (DiffSpec) *)

Last(q) == q[Len(q)]

\* a message was built from the session log
MessageBuilt == dpc # "newMessage" /\ msg # Nil

\* index of the last event authored by the remote agent, 0 when there is none
LastRemote ==
    LET remote == {i \in 1..Len(events) : events[i].Author = RemoteName}
    IN IF remote = {} THEN 0 ELSE CHOOSE i \in remote : \A j \in remote : j <= i

\* newMessage took the generic path
GenericPath == getUserFunctionCallAt(events, Len(events)) = Nil

PartsOf(event) == IF event.Content = Nil THEN <<>> ELSE event.Content.Parts

\* what one event of the log puts into the outbound parts
Contribution(event) ==
    LET ev == IF event.Author \notin {"user", RemoteName}
              THEN presentAsUserMessage(InvocationCtx, event) ELSE event
        conv == ToA2AParts(PartsOf(ev), ev.LongRunningToolIDs)
    IN IF conv.err = "" THEN conv.val ELSE <<>>

RECURSIVE Flatten(_)
Flatten(qs) == IF Len(qs) = 0 THEN <<>> ELSE qs[1] \o Flatten(Tail(qs))

ContextIDOf(event) ==
    IF Has(event.CustomMetadata, customMetaContextIDKey)
    THEN event.CustomMetadata[customMetaContextIDKey] ELSE ""

TaskIDOf(event) ==
    IF Has(event.CustomMetadata, customMetaTaskIDKey)
    THEN event.CustomMetadata[customMetaTaskIDKey] ELSE ""

\* C5: in the generic path the outbound parts are the contributions of the
\* events strictly after the last remote-authored event (of all events when
\* there is none), in log order, and the context ID is the one in that remote
\* event's metadata, "" when there is no such event or no such entry.
C5_GenericDiff ==
    (MessageBuilt /\ GenericPath) =>
        /\ msg.Parts = Flatten([k \in 1..(Len(events) - LastRemote) |->
                                   Contribution(events[LastRemote + k])])
        /\ msg.ContextID = IF LastRemote = 0 THEN "" ELSE ContextIDOf(events[LastRemote])

\* a remote event with a context ID in the middle of the log, parts after it
C5_Witness ==
    /\ MessageBuilt /\ GenericPath
    /\ LastRemote > 1 /\ LastRemote < Len(events)
    /\ Len(PartsOf(events[1])) > 0
    /\ msg.ContextID = "ctx-1"
    /\ Len(msg.Parts) > 0

FunctionResponseIDs(event) ==
    {PartsOf(event)[i].FunctionResponse.ID :
        i \in {j \in 1..Len(PartsOf(event)) : PartsOf(event)[j].FunctionResponse # Nil}}

HasFunctionCall(event, id) ==
    \E i \in 1..Len(PartsOf(event)) :
        /\ PartsOf(event)[i].FunctionCall # Nil
        /\ PartsOf(event)[i].FunctionCall.ID = id

\* index of the nearest event before the last one that calls id, 0 if none
NearestCall(id) ==
    LET calls == {i \in 1..(Len(events) - 1) : HasFunctionCall(events[i], id)}
    IN IF calls = {} THEN 0 ELSE CHOOSE i \in calls : \A j \in calls : j <= i

\* the message is the last event's parts tagged with the IDs of the call event
TaggedWith(id) ==
    /\ msg.Parts = ToA2AParts(PartsOf(Last(events)), Last(events).LongRunningToolIDs).val
    /\ msg.TaskID = TaskIDOf(events[NearestCall(id)])
    /\ msg.ContextID = ContextIDOf(events[NearestCall(id)])

\* C6 as stated: any function response of the last, user-authored event that
\* matches an earlier call makes the message a continuation.
C6_AnyResponse ==
    (/\ MessageBuilt
     /\ Len(events) > 0
     /\ Last(events).Author = "user"
     /\ \E id \in FunctionResponseIDs(Last(events)) : NearestCall(id) > 0)
    => \E id \in FunctionResponseIDs(Last(events)) : NearestCall(id) > 0 /\ TaggedWith(id)

\* call ID of the first function-response part of the last event
FirstResponseID ==
    LET ps == PartsOf(Last(events))
        resp == {i \in 1..Len(ps) : ps[i].FunctionResponse # Nil}
    IN ps[CHOOSE i \in resp : \A j \in resp : i <= j].FunctionResponse.ID

Continuation ==
    /\ Len(events) > 0
    /\ Last(events).Author = "user"
    /\ FunctionResponseIDs(Last(events)) # {}
    /\ NearestCall(FirstResponseID) > 0

\* C6: when the last event is user-authored and the call ID of its first
\* function-response part is that of a function call in an earlier event, the
\* message is exactly the last event's parts, with task and context ID from
\* the metadata of the nearest preceding event holding that call; when those
\* parts cannot be converted no message is built and nothing is sent.
C6_Continuation ==
    (dpc # "newMessage" /\ Continuation) =>
        IF ToA2AParts(PartsOf(Last(events)), Last(events).LongRunningToolIDs).err = ""
        THEN /\ msg # Nil
             /\ msg.Role = MessageRoleUser
             /\ TaggedWith(FirstResponseID)
        ELSE msg = Nil /\ sends = 0 /\ exit = "message"

\* a continuation whose call is not the event right before, with other
\* events in the log the generic path would have picked up
C6_Witness ==
    /\ MessageBuilt /\ Continuation
    /\ Len(events) = 3
    /\ NearestCall(FirstResponseID) = 1
    /\ Len(PartsOf(events[2])) > 0
    /\ msg.TaskID = "task-2"

IsOther(event) == event.Author \notin {"user", RemoteName}

\* the text a non-thought part of another agent's event is described by
Described(author, part) ==
    IF part.Text # ""
    THEN NewPartFromText("[" \o author \o "] said: " \o part.Text)
    ELSE IF part.FunctionCall # Nil
    THEN NewPartFromText("[" \o author \o "] called tool " \o part.FunctionCall.Name
                         \o " with parameters: map[" \o part.FunctionCall.Args \o "]")
    ELSE IF part.FunctionResponse # Nil
    THEN NewPartFromText("[" \o author \o "] " \o part.FunctionResponse.Name
                         \o " tool returned result: map["
                         \o part.FunctionResponse.Response \o "]")
    ELSE part

NotThought(part) == ~part.Thought

\* the session parts C7 has an event contribute
Presented(event) ==
    IF ~IsOther(event) THEN PartsOf(event)
    ELSE LET kept == SelectSeq(PartsOf(event), NotThought)
         IN IF Len(kept) = 0 THEN <<>>
            ELSE <<NewPartFromText("For context:")>>
                 \o [i \in 1..Len(kept) |-> Described(event.Author, kept[i])]

\* each session part as its wire part
Wire(event, parts) == [i \in 1..Len(parts) |-> toA2APart(parts[i], event.LongRunningToolIDs).val]

Convertible(event, parts) ==
    \A i \in 1..Len(parts) : toA2APart(parts[i], event.LongRunningToolIDs).err = ""

Window == [k \in 1..(Len(events) - LastRemote) |-> events[LastRemote + k]]

\* C7 as stated: every event after the last remote event contributes its
\* (re-presented or unmodified) parts.
C7_EveryEvent ==
    (MessageBuilt /\ GenericPath) =>
        msg.Parts = Flatten([k \in 1..Len(Window) |-> Wire(Window[k], Presented(Window[k]))])

\* C7: an event after the last remote event that is authored by neither
\* "user" nor the remote agent contributes "For context:" followed by one
\* describing text per non-thought part (other parts unchanged), and nothing
\* when only the marker would remain; a user-authored event contributes its
\* parts unmodified; an event whose parts cannot be converted to wire parts
\* contributes nothing.
C7_Presentation ==
    (MessageBuilt /\ GenericPath) =>
        msg.Parts = Flatten([k \in 1..Len(Window) |->
                                IF Convertible(Window[k], Presented(Window[k]))
                                THEN Wire(Window[k], Presented(Window[k]))
                                ELSE <<>>])

\* another agent's event with a thought, a call, a response and a file, one
\* with thoughts only, and a user event, all after the last remote event
C7_Witness ==
    /\ MessageBuilt /\ GenericPath
    /\ \E i, j, k \in 1..Len(Window) :
          /\ IsOther(Window[i])
          /\ \E a, b, c \in 1..Len(PartsOf(Window[i])) :
                /\ PartsOf(Window[i])[a].Thought
                /\ PartsOf(Window[i])[b].FunctionCall # Nil
                /\ PartsOf(Window[i])[c].FunctionResponse # Nil
          /\ IsOther(Window[j])
          /\ PartsOf(Window[j]) # <<>>
          /\ \A a \in 1..Len(PartsOf(Window[j])) : PartsOf(Window[j])[a].Thought
          /\ Window[k].Author = "user"
          /\ PartsOf(Window[k]) # <<>>

----------------------------------------------------------------------------
(* properties of the driver (DriverSpec) *)

\* an event authored by the remote agent that reports an error and carries
\* no content
IsErrorEvent(item) ==
    /\ item.err = ""
    /\ item.event.Author = RemoteName
    /\ item.event.ErrorMessage # ""
    /\ item.event.Content = Nil

\* C8: when the message built from the session log has zero parts the driver
\* yields exactly one event, authored by the remote agent, without content or
\* error, and ends; nothing is sent to the peer.
C8_EmptyMessage ==
    (MessageBuilt /\ Len(msg.Parts) = 0) =>
        /\ dpc = "done"
        /\ sends = 0
        /\ inbound = <<>>
        /\ Len(yielded) = 1
        /\ yielded[1].err = ""
        /\ yielded[1].event.Author = RemoteName
        /\ yielded[1].event.Content = Nil
        /\ yielded[1].event.ErrorCode = ""
        /\ yielded[1].event.ErrorMessage = ""

\* an empty message from a log that is not empty: the run has ended and the
\* client it had created is destroyed
C8_Witness ==
    /\ MessageBuilt /\ Len(msg.Parts) = 0
    /\ Len(events) > 0
    /\ exit = "empty"
    /\ client = "destroyed"

\* the step reads an error from the stream
ReadsStreamError ==
    /\ Len(inbound') = Len(inbound) + 1
    /\ Last(inbound').err # ""

\* C9: the step in which the stream reports an error yields exactly one error
\* event for it, after the events yielded so far, and ends the run; once an
\* error was read nothing more is read or yielded; and no yield ever carries a
\* non-nil error.
C9_StreamError ==
    [][/\ ReadsStreamError =>
            /\ Len(yielded') = Len(yielded) + 1
            /\ SubSeq(yielded', 1, Len(yielded)) = yielded
            /\ IsErrorEvent(Last(yielded'))
            /\ Last(yielded').event.ErrorMessage = Last(inbound').err
            /\ dpc' = "done"
       /\ (\E i \in 1..Len(inbound) : inbound[i].err # "") =>
            /\ dpc = "done"
            /\ UNCHANGED <<yielded, inbound>>
       /\ \A i \in 1..Len(yielded') : yielded'[i].err = ""]_vars

\* the stream failed after events had been read and yielded
C9_Witness ==
    /\ exit = "streamError"
    /\ Len(inbound) > 2
    /\ Len(yielded) > 2
    /\ Last(inbound).err # ""
    /\ IsErrorEvent(Last(yielded))
    /\ ~IsErrorEvent(yielded[1])

\* C10: when the agent card cannot be resolved or no client can be created
\* for it, the driver yields exactly one error event and ends, without having
\* built a message or sent anything.
C10_SetupFailure ==
    exit \in {"resolve", "client"} =>
        /\ dpc = "done"
        /\ Len(yielded) = 1
        /\ IsErrorEvent(yielded[1])
        /\ msg = Nil
        /\ sends = 0
        /\ inbound = <<>>

\* the card's transport is none of the factory's
C10_Witness ==
    /\ exit = "client"
    /\ cfg.ClientFactory # Nil
    /\ resolvedCard.PreferredTransport \notin cfg.ClientFactory.Transports
    /\ Len(events) > 0
    /\ Len(yielded) = 1

----------------------------------------------------------------------------
(* correlation metadata of the yielded events (DriverSpec) *)

HasRequest(item) == Has(item.event.CustomMetadata, ToADKMetaKey("request"))
HasResponse(item) == Has(item.event.CustomMetadata, ToADKMetaKey("response"))
ReportsError(item) == Has(item.event.CustomMetadata, ToADKMetaKey("error"))

\* C11 as stated: every event yielded while the streaming response is
\* consumed, error events included, has the a2a:request and the a2a:response
\* entry.
C11_BothEntries ==
    sends > 0 => \A i \in 1..Len(yielded) : HasRequest(yielded[i]) /\ HasResponse(yielded[i])

\* C11: every event yielded while the streaming response is consumed has the
\* a2a:request entry; the translated events also have the a2a:response entry,
\* the error events (stream error, translation error) do not.
C11_Correlation ==
    sends > 0 =>
        \A i \in 1..Len(yielded) :
            /\ HasRequest(yielded[i])
            /\ HasResponse(yielded[i]) <=> ~ReportsError(yielded[i])

\* translated events followed by the error event of a failed translation
C11_Witness ==
    /\ exit = "translateError"
    /\ Len(yielded) > 2
    /\ ReportsError(Last(yielded))
    /\ ~ReportsError(yielded[1])

----------------------------------------------------------------------------
(* release of the client (DriverSpec) *)

\* C12: a client that was created is destroyed exactly once on every way out
\* of run (message-build failure, empty message, stream error, translation
\* error, end of stream, consumer stop), never before; and when the consumer
\* stops, run ends with the event it stopped at: that event is the
\* translation of the last item read, and nothing is read or yielded after.
C12_ClientReleased ==
    /\ destroys <= 1
    /\ client = "none" => destroys = 0
    /\ client = "open" => destroys = 0 /\ dpc \in {"newMessage", "stream"}
    /\ (dpc = "done" /\ client # "none") => client = "destroyed" /\ destroys = 1
    /\ exit \in {"message", "empty", "streamError", "translateError", "exhausted", "stopped"}
          => client = "destroyed" /\ destroys = 1
    /\ exit = "stopped" =>
          /\ dpc = "done"
          /\ Last(yielded).event =
                updateCustomMetadata(ToSessionEvent(InvocationCtx, Last(inbound).event).val,
                                     Request, Last(inbound).event)

\* the consumer stops after it was handed several events
C12_Witness ==
    /\ exit = "stopped"
    /\ Len(yielded) > 1
    /\ Len(inbound) > Len(yielded)
    /\ client = "destroyed"
    /\ destroys = 1

----------------------------------------------------------------------------
(* part codec: ToA2AParts and ToGenAIParts applied one after the other *)

InlinePartOf(data, videoMetadata) ==
    [EmptyPart EXCEPT
        !.InlineData = [Data |-> data, MIMEType |-> "image/jpeg", DisplayName |-> "cat.jpeg"],
        !.VideoMetadata = videoMetadata]

\* the internal parts a conversion is handed
GenAIParts ==
    { NewPartFromText("Hello"),
      [NewPartFromText("Hello") EXCEPT !.Thought = TRUE],
      [EmptyPart EXCEPT !.FileData = [FileURI |-> "ftp://cat.com", MIMEType |-> "image/jpeg",
                                      DisplayName |-> "cat.jpeg"]],
      InlinePartOf("ff", Nil),
      InlinePartOf("ff", [FPS |-> "5"]),
      NewPartFromFunctionCall("call-1", "GetWeather", "city:Warsaw"),
      NewPartFromFunctionCall("call-2", "GetWeather", ""),
      NewPartFromFunctionResponse("call-1", "GetWeather", "temperature:7C"),
      [EmptyPart EXCEPT !.ExecutableCode = [Code |-> "print(2+2)", Language |-> "PYTHON"]],
      [EmptyPart EXCEPT !.CodeExecutionResult = [Outcome |-> "OUTCOME_OK", Output |-> "4"]] }

ToolIDLists == {<<>>, <<"call-1">>, <<"call-2">>, <<"call-2", "call-1">>}

\* the wire parts a conversion is handed
A2AParts ==
    { TextPartOf("Hello"),
      DataPart([zzz |-> "data", id |-> "x"], Nil),
      DataPart([id |-> "x"], [other |-> "meta"]),
      DataPart([name |-> "n", args |-> "a"],
               Put(EmptyMap, a2aDataPartMetaTypeKey, "custom")),
      DataPart(EmptyMap, Nil),
      DataPart([id |-> "call-1", name |-> "GetWeather"],
               Put(Put(EmptyMap, a2aDataPartMetaTypeKey, a2aDataPartTypeFunctionCall),
                   a2aDataPartMetaLongRunningKey, TRUE)),
      DataPart([id |-> Mistyped],
               Put(EmptyMap, a2aDataPartMetaTypeKey, a2aDataPartTypeFunctionResponse)) }

CodecInit ==
    /\ \/ /\ given \in SeqsUpTo(GenAIParts, MaxParts)
          /\ toolIDs \in ToolIDLists
          /\ genaiParts = given
          /\ a2aParts = <<>>
          /\ todo = <<"encode", "decode">>
       \/ /\ given \in SeqsUpTo(A2AParts, MaxParts)
          /\ toolIDs = <<>>
          /\ genaiParts = <<>>
          /\ a2aParts = given
          /\ todo = <<"decode", "encode">>
    /\ recovered = <<>>
    /\ codecErr = ""
    /\ ServerIdle
    /\ ClientIdle
    /\ AgentIdle

\* ToA2AParts(genaiParts, toolIDs) succeeds
CodecEncode ==
    /\ todo # <<>> /\ Head(todo) = "encode"
    /\ ToA2AParts(genaiParts, toolIDs).err = ""
    /\ a2aParts' = ToA2AParts(genaiParts, toolIDs).val
    /\ todo' = Tail(todo)
    /\ UNCHANGED <<given, toolIDs, genaiParts, recovered, codecErr>>
    /\ UNCHANGED <<svars, cvars, avars>>

\* ToGenAIParts(a2aParts) succeeds; the long-running IDs are read off the
\* two part lists as the translator does after decoding
CodecDecode ==
    /\ todo # <<>> /\ Head(todo) = "decode"
    /\ toGenAIParts(a2aParts).err = ""
    /\ genaiParts' = toGenAIParts(a2aParts).val
    /\ recovered' = getLongRunningToolIDs(a2aParts, toGenAIParts(a2aParts).val)
    /\ todo' = Tail(todo)
    /\ UNCHANGED <<given, toolIDs, a2aParts, codecErr>>
    /\ UNCHANGED <<svars, cvars, avars>>

\* the conversion in turn returns an error
CodecFails ==
    /\ todo # <<>>
    /\ \E r \in {IF Head(todo) = "encode" THEN ToA2AParts(genaiParts, toolIDs)
                 ELSE toGenAIParts(a2aParts)} :
          /\ r.err # ""
          /\ codecErr' = r.err
    /\ todo' = <<>>
    /\ UNCHANGED <<given, toolIDs, genaiParts, a2aParts, recovered>>
    /\ UNCHANGED <<svars, cvars, avars>>

CodecNext ==
    \/ CodecEncode
    \/ CodecDecode
    \/ CodecFails

CodecSpec == CodecInit /\ [][CodecNext]_vars

----------------------------------------------------------------------------
(* properties of the part codec (CodecSpec) *)

\* the run started from internal parts: encode, then decode
TwoWay == given # <<>> /\ \A i \in 1..Len(given) : given[i] \in GenAIParts

\* the run started from wire parts: decode, then encode
OneWay == given # <<>> /\ \A i \in 1..Len(given) : given[i] \in A2AParts

\* C13: decoding the encoding of a text (thought or not), inline-bytes file,
\* URI file, function call, function response, executable code or code
\* execution result part gives a part equal to it.
C13_RoundTrip ==
    (TwoWay /\ todo = <<>>) => codecErr = "" /\ genaiParts = given

RecognisedTypes ==
    {a2aDataPartTypeFunctionCall, a2aDataPartTypeFunctionResponse,
     a2aDataPartTypeCodeExecResult, a2aDataPartTypeCodeExecutableCode}

\* a wire data part without type metadata or with a type that is not known
Opaque(part) ==
    /\ part.kind = "data"
    /\ \/ part.Metadata = Nil
       \/ ~Has(part.Metadata, a2aDataPartMetaTypeKey)
       \/ part.Metadata[a2aDataPartMetaTypeKey] \notin RecognisedTypes

\* C14: an opaque wire data part never makes decoding fail; it decodes to a
\* text part holding the canonical JSON of its data, and encoding that part
\* gives a wire text part with that JSON, which is not the data part.
C14_OpaqueData ==
    OneWay =>
        /\ (\A i \in 1..Len(given) : given[i].kind = "text" \/ Opaque(given[i])) => codecErr = ""
        /\ (codecErr = "" /\ Len(todo) < 2) =>
              \A i \in 1..Len(given) :
                  Opaque(given[i]) => genaiParts[i] = NewPartFromText(jsonMarshal(given[i].Data))
        /\ (codecErr = "" /\ todo = <<>>) =>
              \A i \in 1..Len(given) :
                  Opaque(given[i]) =>
                      /\ a2aParts[i] = TextPartOf(jsonMarshal(given[i].Data))
                      /\ a2aParts[i] # given[i]

\* a data part with two keys and no metadata went there and back
C14_Witness ==
    /\ OneWay /\ todo = <<>> /\ codecErr = ""
    /\ Len(given) = 2
    /\ given[1] = DataPart([zzz |-> "data", id |-> "x"], Nil)
    /\ a2aParts[1].Text = "{\"id\":\"x\",\"zzz\":\"data\"}"
    /\ Opaque(given[2]) /\ given[2].Metadata # Nil
    /\ Has(given[2].Metadata, a2aDataPartMetaTypeKey)

IsCall(part) == part.Text = "" /\ part.InlineData = Nil /\ part.FileData = Nil
                /\ part.CodeExecutionResult = Nil /\ part.FunctionResponse = Nil
                /\ part.ExecutableCode = Nil /\ part.FunctionCall # Nil

InToolIDs(part) == IsCall(part) /\ \E k \in 1..Len(toolIDs) : toolIDs[k] = part.FunctionCall.ID

\* C15: the wire form of a function-call part has the long-running flag set
\* exactly when the call's ID is among the IDs handed to the encoder, and the
\* IDs recovered after decoding are those of the function-call parts whose ID
\* was among them, in part order.
C15_LongRunning ==
    (TwoWay /\ codecErr = "") =>
        /\ Len(todo) < 2 =>
              \A i \in 1..Len(given) :
                  IsCall(given[i]) =>
                      a2aParts[i].Metadata[a2aDataPartMetaLongRunningKey] = InToolIDs(given[i])
        /\ todo = <<>> =>
              recovered = [k \in 1..Len(SelectSeq(given, InToolIDs)) |->
                              SelectSeq(given, InToolIDs)[k].FunctionCall.ID]

\* two calls, only the second of them long-running
C15_Witness ==
    /\ TwoWay /\ todo = <<>> /\ codecErr = ""
    /\ Len(given) = 2
    /\ IsCall(given[1]) /\ ~InToolIDs(given[1])
    /\ InToolIDs(given[2])
    /\ recovered = <<given[2].FunctionCall.ID>>

----------------------------------------------------------------------------
(* properties of the inbound event translator, seen at the driver's yields *)
(* (DriverSpec)                                                            *)

\* the step reads an event from the stream
ReadsEvent ==
    /\ Len(inbound') = Len(inbound) + 1
    /\ Last(inbound').err = ""

\* the step hands exactly one more event to the consumer, a translated one
YieldsOne ==
    /\ Len(yielded') = Len(yielded) + 1
    /\ SubSeq(yielded', 1, Len(yielded)) = yielded
    /\ Last(yielded').err = ""
    /\ ~ReportsError(Last(yielded'))

\* the step hands nothing to the consumer and the loop goes on
YieldsNone == yielded' = yielded /\ dpc' = "stream"

IsNonFinalStatus(e) == e.kind = "status-update" /\ ~e.Final

Decoded(parts) == toGenAIParts(parts).val
Decodable(parts) == toGenAIParts(parts).err = ""

AllThought(parts) == \A i \in 1..Len(parts) : parts[i].Thought

\* C16: a non-final status update with a message is translated to one event
\* whose parts are the decoded parts of the message, each with thought=true;
\* one without a message gives no event; an artifact update with zero parts
\* gives no event.
C16_NonFinalStatus ==
    [][ReadsEvent =>
         LET e == Last(inbound').event IN
         /\ (IsNonFinalStatus(e) /\ e.Message # Nil) =>
               /\ YieldsOne
               /\ Len(PartsOf(Last(yielded').event)) = Len(e.Message.Parts)
               /\ AllThought(PartsOf(Last(yielded').event))
         /\ (IsNonFinalStatus(e) /\ e.Message = Nil) => YieldsNone
         /\ (e.kind = "artifact-update" /\ Len(e.Parts) = 0) => YieldsNone]_vars

HasTaskInfo(event, taskID, ctxID) ==
    /\ Has(event.CustomMetadata, customMetaTaskIDKey)
    /\ event.CustomMetadata[customMetaTaskIDKey] = taskID
    /\ Has(event.CustomMetadata, customMetaContextIDKey)
    /\ event.CustomMetadata[customMetaContextIDKey] = ctxID

MessageParts(m) == IF m = Nil THEN <<>> ELSE m.Parts

\* C17: a final status update whose message parts (if any) can be decoded is
\* translated to exactly one event with turnComplete=true and the update's
\* task and context ID in its metadata; the content is the decoded message
\* parts with role model, and absent when there is no message or no part.
\* When a part cannot be decoded the translation fails.
C17_FinalStatus ==
    [][ReadsEvent =>
         LET e == Last(inbound').event IN
         IsFinalStatus(e) =>
            IF Decodable(MessageParts(e.Message))
            THEN /\ YieldsOne
                 /\ Last(yielded').event.TurnComplete
                 /\ Last(yielded').event.Author = RemoteName
                 /\ HasTaskInfo(Last(yielded').event, e.TaskID, e.ContextID)
                 /\ Last(yielded').event.Content =
                       IF Len(MessageParts(e.Message)) > 0
                       THEN [Parts |-> Decoded(e.Message.Parts), Role |-> RoleModel]
                       ELSE Nil
            ELSE exit' = "translateError"]_vars

\* a final status update with a text message was translated
C17_Witness ==
    /\ Len(inbound) > 1
    /\ Last(inbound).err = ""
    /\ IsFinalStatus(Last(inbound).event)
    /\ Last(inbound).event.Message # Nil
    /\ Len(yielded) > 1
    /\ Last(yielded).event.TurnComplete
    /\ Last(yielded).event.Content # Nil
    /\ Last(yielded).event.Content.Parts[1].Text = "failed"

RECURSIVE ArtifactParts(_)
ArtifactParts(artifacts) ==
    IF Len(artifacts) = 0 THEN <<>>
    ELSE artifacts[1].Parts \o ArtifactParts(Tail(artifacts))

\* the wire parts of a task snapshot: artifacts in order, then the status message
SnapshotParts(task) == ArtifactParts(task.Artifacts) \o MessageParts(task.Status.Message)

IsLongRunningCall(part) ==
    /\ part.kind = "data"
    /\ part.Metadata # Nil
    /\ Has(part.Metadata, a2aDataPartMetaTypeKey)
    /\ part.Metadata[a2aDataPartMetaTypeKey] = a2aDataPartTypeFunctionCall
    /\ Has(part.Metadata, a2aDataPartMetaLongRunningKey)
    /\ part.Metadata[a2aDataPartMetaLongRunningKey] = TRUE

LongRunningCallIDs(parts) ==
    [k \in 1..Len(SelectSeq(parts, IsLongRunningCall)) |->
        SelectSeq(parts, IsLongRunningCall)[k].Data.id]

\* C18: a task snapshot whose parts can be decoded is translated to one event
\* whose parts are the decoded parts of its artifacts, in order, followed by
\* those of the status message, with the task and context ID in its
\* metadata; the long-running IDs are those of the long-running function
\* calls among these parts when the state is input-required, none otherwise.
C18_TaskSnapshot ==
    [][ReadsEvent =>
         LET e == Last(inbound').event IN
         (e.kind = "task" /\ Decodable(SnapshotParts(e))) =>
            /\ YieldsOne
            /\ PartsOf(Last(yielded').event) = Decoded(SnapshotParts(e))
            /\ HasTaskInfo(Last(yielded').event, e.ID, e.ContextID)
            /\ Last(yielded').event.LongRunningToolIDs =
                  IF e.Status.State = TaskStateInputRequired
                  THEN LongRunningCallIDs(SnapshotParts(e)) ELSE <<>>]_vars

\* an input-required snapshot with long-running calls in an artifact and in
\* the status message was translated
C18_Witness ==
    /\ Len(inbound) > 0
    /\ Last(inbound).err = ""
    /\ Last(inbound).event.kind = "task"
    /\ Last(inbound).event.Status.State = TaskStateInputRequired
    /\ Len(yielded) > 0
    /\ Len(PartsOf(Last(yielded).event)) = 4
    /\ Last(yielded).event.LongRunningToolIDs = <<"call-7", "call-8">>

\* C19 as stated: a message is translated to an event authored by "user"
\* when its role is user, by the remote agent otherwise.
C19_AuthorByRole ==
    [][ReadsEvent =>
         LET e == Last(inbound').event IN
         (e.kind = "message" /\ Decodable(e.Parts)) =>
            /\ YieldsOne
            /\ Last(yielded').event.Author =
                  IF e.Role = MessageRoleUser THEN "user" ELSE RemoteName]_vars

\* C19: a message whose parts can be decoded is translated to an event
\* authored by the remote agent whatever the message's role; the role decides
\* the role of the content: user for a user message, model otherwise; a
\* message without parts gives an event without content.
C19_MessageAuthor ==
    [][ReadsEvent =>
         LET e == Last(inbound').event IN
         (e.kind = "message" /\ Decodable(e.Parts)) =>
            /\ YieldsOne
            /\ Last(yielded').event.Author = RemoteName
            /\ Last(yielded').event.Content =
                  IF Len(e.Parts) = 0 THEN Nil
                  ELSE [Parts |-> Decoded(e.Parts),
                        Role |-> IF e.Role = MessageRoleUser THEN RoleUser ELSE RoleModel]]_vars

\* a user-role message was translated
C19_Witness ==
    /\ Len(inbound) > 0
    /\ Last(inbound).err = ""
    /\ Last(inbound).event.kind = "message"
    /\ Last(inbound).event.Role = MessageRoleUser
    /\ Len(yielded) > 0
    /\ Last(yielded).event.Author = RemoteName
    /\ Last(yielded).event.Content.Role = RoleUser

----------------------------------------------------------------------------
(* server role: failure of a queue write (Spec) *)

\* C20: as soon as a queue write fails during Execute, Execute returns a
\* non-nil error; the failed write adds nothing to the queue and nothing is
\* written after it: no retry, no later event, no Failed status about the
\* write failure.
C20_WriteFailure ==
    [][writeFailed' =>
          /\ pc' = "done"
          /\ ret' = "error"
          /\ queue' = queue
          /\ writeFailed => UNCHANGED svars]_vars

\* the write of the first of two terminal events failed after a normal run:
\* Execute returned the error with the second one unwritten
C20_Witness ==
    /\ writeFailed
    /\ pc = "done"
    /\ ret = "error"
    /\ runEnd = "normal"
    /\ pending # <<>>
    /\ Len(queue) >= 2

----------------------------------------------------------------------------
(* server role: what Execute returns (Spec) *)

\* C21 as stated: Execute returns a non-nil error only when a queue write
\* failed.
C21_OnlyWriteErrors == ret = "error" => writeFailed

\* Execute returned nil after reporting a failure as a Failed final status
ReportedAsFailed ==
    /\ ret = "nil"
    /\ Len(queue) > 0
    /\ IsFinalStatus(Last(queue))
    /\ Last(queue).State = TaskStateFailed
    /\ NumFinal(queue) = 1

\* C21: Execute returns a non-nil error when a queue write failed and when
\* the request is rejected before anything is written (no request message, a
\* request message that cannot be converted, or the runner cannot be
\* created), and in no other case; a failure of session preparation, of the
\* local run or of event processing is reported as a Failed final status and
\* a nil return, provided the write of that status succeeds.
C21_ErrorReturns ==
    /\ ret = "error" <=> (writeFailed \/ pc = "rejected")
    /\ pc = "rejected" => (queue = <<>> /\ ~writeFailed)
    /\ (pc = "done" /\ ~writeFailed /\ runEnd # "normal") => ReportedAsFailed

\* a request whose message cannot be converted was rejected
C21_Witness ==
    /\ pc = "rejected"
    /\ ret = "error"
    /\ reqCtx.Message # Nil
    /\ toGenAIContent(reqCtx.Message).err # ""
    /\ queue = <<>>

----------------------------------------------------------------------------
(* client role: one remote agent invoked several times (AgentSpec).  New   *)
(* builds one a2aAgent whose Run closure captures cfg; every invocation    *)
(* calls run on that one agent, and invocations may overlap.               *)

\* invocations of one remote agent
MaxInvocations == 2

\* what os.ReadFile finds at a path: nothing, bytes that are no agent card,
\* the JSON of PeerCard
CardFiles == {"missing", "garbage", "card"}

\* the variables of one run that the agent does not share
dvars == <<events, dpc, msg, yielded, client, destroys, sends, inbound, exit>>

\* which collaborator resolveAgentCard consults for a configuration
Consulted(config) ==
    IF config.AgentCard # Nil THEN "none"
    ELSE IF IsHTTP(config.AgentCardSource) THEN "resolver"
    ELSE "file"

AgentInit ==
    /\ cfg \in Configs
    /\ resolvedCard = cfg.AgentCard
    /\ invocations = <<>>
    /\ world \in { [file |-> f, resolverCalls |-> 0, fileReads |-> 0,
                    resolved |-> FALSE, writers |-> <<>>] : f \in CardFiles }
    /\ events = <<>> /\ dpc = "idle" /\ msg = Nil /\ yielded = <<>> /\ client = "none"
    /\ destroys = 0 /\ sends = 0 /\ inbound = <<>> /\ exit = "none"
    /\ ServerIdle
    /\ CodecIdle

Running == {i \in 1..Len(invocations) : invocations[i].pc # "done"}

\* the Run closure is called: a new invocation of run starts
Invoke ==
    /\ Len(invocations) < MaxInvocations
    /\ invocations' = Append(invocations,
                             [pc |-> "resolve", card |-> Nil, out |-> "none",
                              with |-> Running])
    /\ UNCHANGED <<cfg, resolvedCard, world, dvars>>
    /\ UNCHANGED <<svars, pvars>>

\* the calls resolveAgentCard makes are counted
Counted(w, config) ==
    [w EXCEPT !.resolverCalls = @ + (IF Consulted(config) = "resolver" THEN 1 ELSE 0),
              !.fileReads = @ + (IF Consulted(config) = "file" THEN 1 ELSE 0)]

\* resolveAgentCard returns an error: one error event, return
AgentResolveFailed(i) ==
    /\ invocations[i].pc = "resolve"
    /\ \E resolverOk \in BOOLEAN :
          resolveAgentCard(cfg, resolverOk, world.file # "missing").err # ""
    /\ invocations' = [invocations EXCEPT ![i].pc = "done", ![i].out = "resolutionError"]
    /\ world' = Counted(world, cfg)
    /\ UNCHANGED <<cfg, resolvedCard, dvars>>
    /\ UNCHANGED <<svars, pvars>>

\* resolveAgentCard returns a card
AgentResolved(i) ==
    /\ invocations[i].pc = "resolve"
    /\ \E resolverOk \in BOOLEAN :
          \E r \in {resolveAgentCard(cfg, resolverOk, world.file # "missing")} :
             /\ r.err = ""
             /\ invocations' = [invocations EXCEPT ![i].pc = "store", ![i].card = r.card]
    /\ world' = [Counted(world, cfg) EXCEPT !.resolved = TRUE]
    /\ UNCHANGED <<cfg, resolvedCard, dvars>>
    /\ UNCHANGED <<svars, pvars>>

\* a.resolvedCard = card: an unsynchronised write to the agent's field
AgentStoreCard(i) ==
    /\ invocations[i].pc = "store"
    /\ resolvedCard' = invocations[i].card
    /\ invocations' = [invocations EXCEPT ![i].pc = "client"]
    /\ world' = [world EXCEPT !.writers = Append(@, i)]
    /\ UNCHANGED <<cfg, dvars>>
    /\ UNCHANGED <<svars, pvars>>

\* the rest of run: client creation and, with a client, the exchange with
\* the peer; none of it touches the agent
AgentRunRest(i) ==
    /\ invocations[i].pc = "client"
    /\ \E dialOk \in BOOLEAN :
          invocations' = [invocations EXCEPT
                            ![i].pc = "done",
                            ![i].out = IF createClient(cfg, invocations[i].card, dialOk) # ""
                                       THEN "clientError" ELSE "ran"]
    /\ UNCHANGED <<cfg, resolvedCard, world, dvars>>
    /\ UNCHANGED <<svars, pvars>>

AgentNext ==
    \/ Invoke
    \/ \E i \in 1..Len(invocations) : AgentResolveFailed(i)
    \/ \E i \in 1..Len(invocations) : AgentResolved(i)
    \/ \E i \in 1..Len(invocations) : AgentStoreCard(i)
    \/ \E i \in 1..Len(invocations) : AgentRunRest(i)

AgentSpec == AgentInit /\ [][AgentNext]_vars

\* C22: once the descriptor has been resolved successfully, no later
\* invocation of the agent calls the resolver or reads the file again.
C22_ResolvedOnce ==
    [][world.resolved =>
          /\ world'.resolverCalls = world.resolverCalls
          /\ world'.fileReads = world.fileReads]_vars

\* both invocations wrote the field and ran at the same time
Overlapping(i, j) == i \in invocations[j].with \/ j \in invocations[i].with

WroteField == {world.writers[k] : k \in 1..Len(world.writers)}

\* C23: no variable of the agent is written by one invocation and written
\* by another invocation that runs at the same time.
C23_NoSharedState ==
    \A i \in WroteField, j \in WroteField : i # j => ~Overlapping(i, j)

\* C24: with no card given and a source that is not an http(s) URL, a
\* readable file holding a valid agent card resolves to that card and the
\* invocation goes on to client creation.
C24_FileSource ==
    [][\A i \in 1..Len(invocations) :
          (/\ Consulted(cfg) = "file"
           /\ world.file = "card"
           /\ invocations[i].pc = "resolve"
           /\ invocations'[i].pc # "resolve")
          => (/\ invocations'[i].out # "resolutionError"
              /\ invocations'[i].card = PeerCard)]_vars

----------------------------------------------------------------------------
(* client role: the yielded sequence against the inbound one (DriverSpec) *)

\* the translation r of an inbound item succeeded
CleanResult(item, r) == item.err = "" /\ ~r.panic /\ r.err = ""

\* the item is an event that ToSessionEvent translates without failing
Clean(item) ==
    item.err = "" /\ CleanResult(item, ToSessionEvent(InvocationCtx, item.event))

\* what the translation r of an inbound item contributes to the output
Contributes(item, r) ==
    IF r.val = Nil THEN <<>>
    ELSE <<[event |-> updateCustomMetadata(r.val, Request, item.event), err |-> ""]>>

RECURSIVE TranslatedStream(_)
TranslatedStream(items) ==
    IF Len(items) = 0 THEN <<>>
    ELSE Contributes(Head(items), ToSessionEvent(InvocationCtx, Head(items).event))
         \o TranslatedStream(Tail(items))

\* C25: while the stream reports no error and every inbound event can be
\* translated, the events yielded so far are the translations of the inbound
\* events read so far, in arrival order, without the no-event results and
\* with the correlation metadata attached: nothing is reordered, duplicated
\* or dropped.
C25_ArrivalOrder ==
    (sends > 0 /\ \A i \in 1..Len(inbound) : Clean(inbound[i]))
        => yielded = TranslatedStream(inbound)

\* three different events were read to the end of the stream, the second
\* gave no event
C25_Witness ==
    /\ exit = "exhausted"
    /\ Len(inbound) = 3
    /\ \A i \in 1..3 : Clean(inbound[i])
    /\ ToSessionEvent(InvocationCtx, inbound[2].event).val = Nil
    /\ inbound[1].event # inbound[3].event
    /\ Len(yielded) = 2

----------------------------------------------------------------------------
(* server role: failures inside the loop over the local run (Spec) *)

\* the step writes exactly one event
WritesOne ==
    /\ Len(queue') = Len(queue) + 1
    /\ SubSeq(queue', 1, Len(queue)) = queue

\* the status is a Failed final status whose message is the text
IsFailedWith(e, text) ==
    /\ IsFinalStatus(e)
    /\ e.State = TaskStateFailed
    /\ e.Message # Nil
    /\ e.Message.Parts = <<TextPartOf(text)>>

NoClosingArtifact(q) == \A i \in 1..Len(q) : IsArtifact(q[i]) => ~q[i].LastChunk

\* C26: when the local run reports an error, Execute writes one Failed final
\* status carrying that error and stops: no closing artifact update is
\* written even after artifact updates, no further local event is pulled, no
\* other terminal status is written, and Execute returns nil (an error only
\* if the write of the Failed status itself fails).
C26_RunFailure ==
    [][/\ (runEnd # "runError" /\ runEnd' = "runError") =>
             /\ pc' = "done"
             /\ IF writeFailed' THEN queue' = queue /\ ret' = "error"
                ELSE /\ WritesOne
                     /\ IsFailedWith(Last(queue'),
                                     "agent run failed: " \o Last(runLog').err)
                     /\ NumFinal(queue') = 1
                     /\ NoClosingArtifact(queue')
                     /\ ret' = "nil"
       /\ runEnd = "runError" => UNCHANGED svars]_vars

\* the run failed after an artifact update had been written
C26_Witness ==
    /\ runEnd = "runError"
    /\ ~writeFailed
    /\ ret = "nil"
    /\ Len(Artifacts(queue)) >= 1
    /\ IsFinalStatus(Last(queue))

\* the error eventProcessor.process returns for the event in state p
ProcessError(p, event) ==
    process(p, reqCtx, event, CHOOSE id \in ArtifactIDs : TRUE).err

\* C27: when processing a local event fails, Execute writes one Failed final
\* status carrying that error and stops: the failing event gives no artifact
\* update, no later local event is processed or emitted, no closing artifact
\* update is written, and Execute returns nil (an error only if the write of
\* the Failed status itself fails).
C27_ProcessFailure ==
    [][/\ (runEnd # "processError" /\ runEnd' = "processError") =>
             /\ pc' = "done"
             /\ Len(runLog') = Len(runLog) + 1
             /\ IF writeFailed' THEN queue' = queue /\ ret' = "error"
                ELSE /\ WritesOne
                     /\ IsFailedWith(Last(queue'),
                                     "processor failed: "
                                     \o ProcessError(processor, Last(runLog').event))
                     /\ NumFinal(queue') = 1
                     /\ NoClosingArtifact(queue')
                     /\ ret' = "nil"
       /\ runEnd = "processError" => UNCHANGED svars]_vars

\* processing failed on an event whose parts cannot be converted, after an
\* artifact update had been written
C27_Witness ==
    /\ runEnd = "processError"
    /\ ~writeFailed
    /\ ret = "nil"
    /\ Len(Artifacts(queue)) >= 1
    /\ IsFinalStatus(Last(queue))
    /\ Last(runLog).event.Content # Nil
    /\ Last(runLog).event.GroundingMetadata = ""

----------------------------------------------------------------------------
(* server role: what precedes the local run (Spec) *)

StatusAt(q, state) == {i \in 1..Len(q) : IsStatus(q[i]) /\ q[i].State = state}

\* C28: a Submitted status is written iff the request references no stored
\* task, then once and as the first event written; one Working status is
\* written before the first local event is pulled, so no artifact update
\* precedes Working.
C28_SubmittedWorking ==
    /\ StatusAt(queue, TaskStateSubmitted) \subseteq {1}
    /\ reqCtx.StoredTask # Nil => StatusAt(queue, TaskStateSubmitted) = {}
    /\ (reqCtx.StoredTask = Nil /\ (queue # <<>> \/ pc \in {"prepareSession", "working",
                                                           "run", "terminal"}))
          => StatusAt(queue, TaskStateSubmitted) = {1}
    /\ Cardinality(StatusAt(queue, TaskStateWorking)) <= 1
    /\ (Len(runLog) > 0 \/ pc \in {"run", "terminal"})
          => Cardinality(StatusAt(queue, TaskStateWorking)) = 1
    /\ \A i \in 1..Len(queue) :
          IsArtifact(queue[i]) => \E j \in StatusAt(queue, TaskStateWorking) : j < i

\* a request without a stored task ran to the end with an artifact update
C28_Witness ==
    /\ reqCtx.StoredTask = Nil
    /\ ExecuteCompleted
    /\ runEnd = "normal"
    /\ Len(queue) >= 4
    /\ queue[1].State = TaskStateSubmitted
    /\ queue[2].State = TaskStateWorking
    /\ IsArtifact(queue[3])

CallsOf(op) == SelectSeq(sessionCalls, LAMBDA c : c.op = op)

\* C29: before the local run starts Execute asks the session service for the
\* session of user "A2A_USER_"+contextID and session ID contextID; Create is
\* issued, once and for the same identity, iff Get fails or returns nothing;
\* the local run is never started unless the session exists; when Create
\* fails one Failed final status is written and Working never is.
C29_GetOrCreate ==
    /\ \A k \in 1..Len(sessionCalls) :
          /\ sessionCalls[k].key.UserID = "A2A_USER_" \o reqCtx.ContextID
          /\ sessionCalls[k].key.SessionID = reqCtx.ContextID
    /\ Len(CallsOf("Get")) <= 1
    /\ Len(CallsOf("Create")) = (IF \E k \in 1..Len(sessionCalls) :
                                       sessionCalls[k].op = "Get" /\ ~sessionCalls[k].found
                                 THEN 1 ELSE 0)
    /\ (Len(runLog) > 0 \/ pc \in {"working", "run", "terminal"})
          => (/\ Len(CallsOf("Get")) = 1
              /\ SessionKey(reqCtx) \in sessions
              /\ \A k \in 1..Len(sessionCalls) :
                    sessionCalls[k].op = "Create" => sessionCalls[k].ok)
    /\ (\E k \in 1..Len(sessionCalls) : sessionCalls[k].op = "Create" /\ ~sessionCalls[k].ok)
          => (/\ pc = "done"
              /\ runLog = <<>>
              /\ StatusAt(queue, TaskStateWorking) = {}
              /\ ~writeFailed => (ReportedAsFailed /\ NumFinal(queue) = 1))

\* the session was there and Get found it: the run started without a Create
C29_Witness ==
    /\ sessionCalls = <<GetCall(TRUE)>>
    /\ Len(runLog) > 0
    /\ ExecuteCompleted

\* Create failed: one Failed final status, no Working
C29_WitnessCreateFailed ==
    /\ Len(sessionCalls) = 2
    /\ ~sessionCalls[2].ok
    /\ ~writeFailed
    /\ pc = "done"
    /\ IsFinalStatus(Last(queue))

----------------------------------------------------------------------------
(* client role: a function response that is not the last event (DiffSpec) *)

\* event i is a user function response to a call in an earlier event
MatchesEarlierCall(i) ==
    /\ events[i].Author = "user"
    /\ \E id \in FunctionResponseIDs(events[i]) :
          \E j \in 1..(i - 1) : HasFunctionCall(events[j], id)

\* such a response stands before the last event, which is itself no
\* continuation
EarlierMatchOnly ==
    /\ \E i \in 1..(Len(events) - 1) : MatchesEarlierCall(i)
    /\ ~Continuation

\* C30: a user function response that matches an earlier function call but
\* is not the last event of the log does not make the message a
\* continuation: the message is built by the generic diff from all events
\* after the last remote event and carries no task ID.
C30_OnlyLastEvent ==
    (MessageBuilt /\ EarlierMatchOnly) =>
        /\ GenericPath
        /\ msg.TaskID = ""
        /\ msg.Parts = Flatten([k \in 1..(Len(events) - LastRemote) |->
                                   Contribution(events[LastRemote + k])])
        /\ msg.ContextID = IF LastRemote = 0 THEN "" ELSE ContextIDOf(events[LastRemote])

\* the call event carries a task ID, the response follows it, the user wrote
\* again afterwards
C30_Witness ==
    /\ MessageBuilt /\ EarlierMatchOnly
    /\ Len(events) = 3
    /\ MatchesEarlierCall(2)
    /\ TaskIDOf(events[1]) # ""
    /\ msg.TaskID = ""
    /\ Len(msg.Parts) > 0

----------------------------------------------------------------------------
(* client role: the author of the matched call (DiffSpec) *)

\* an event of the remote agent before the last one calls id
RemoteCallFor(id) ==
    \E j \in 1..(Len(events) - 1) :
        events[j].Author = RemoteName /\ HasFunctionCall(events[j], id)

\* the last event answers a call that only events of other authors hold
ForeignCallOnly == Continuation /\ ~RemoteCallFor(FirstResponseID)

GenericMessage ==
    /\ msg.TaskID = ""
    /\ msg.Parts = Flatten([k \in 1..(Len(events) - LastRemote) |->
                               Contribution(events[LastRemote + k])])

\* C31 as stated: a matching call that occurs only in events of authors
\* other than the remote agent leaves the message to the generic path.
C31_RemoteCallOnly == (MessageBuilt /\ ForeignCallOnly) => GenericMessage

\* C31: the author of the event holding the matching call plays no part: a
\* call that occurs only in events of other authors makes the message a
\* continuation as well, tagged with the task and context ID in the metadata
\* of the nearest such event.
C31_AnyAuthor ==
    (MessageBuilt /\ ForeignCallOnly) =>
        /\ ~GenericPath
        /\ msg.Parts = ToA2AParts(PartsOf(Last(events)), Last(events).LongRunningToolIDs).val
        /\ msg.TaskID = TaskIDOf(events[NearestCall(FirstResponseID)])
        /\ msg.ContextID = ContextIDOf(events[NearestCall(FirstResponseID)])
        /\ events[NearestCall(FirstResponseID)].Author # RemoteName

\* the user answered a call made by another agent
C31_Witness ==
    /\ MessageBuilt /\ ForeignCallOnly
    /\ events[NearestCall(FirstResponseID)].Author = "other-agent"
    /\ msg.TaskID = "task-3"
    /\ msg.ContextID = "ctx-3"

----------------------------------------------------------------------------
(* server role: the terminal slot (Spec) *)

\* the slot holds a recorded Failed status
FailedRecorded(p) ==
    /\ Has(p.terminalEvents, TaskStateFailed)
    /\ p.terminalEvents[TaskStateFailed].State = TaskStateFailed

\* the step processes one more local event, which has an error code
ProcessesErrorCoded ==
    /\ Len(runLog') = Len(runLog) + 1
    /\ HasErrorCode(Last(runLog'))

\* C32: once the Failed status of the first error-coded event is recorded,
\* no later error-coded event replaces it.
C32_FirstErrorWins ==
    [][(FailedRecorded(processor) /\ ProcessesErrorCoded)
          => processor'.terminalEvents[TaskStateFailed]
                = processor.terminalEvents[TaskStateFailed]]_vars

FirstErrorCoded ==
    runLog[CHOOSE i \in 1..Len(runLog) :
              HasErrorCode(runLog[i]) /\ \A j \in 1..(i - 1) : ~HasErrorCode(runLog[j])].event

\* when the terminal status of a normally ended run is Failed, it carries the
\* message and the event metadata of the first error-coded event
FailedCarriesFirstError ==
    (ExecuteCompleted /\ runEnd = "normal" /\ TerminalWritten(queue).State = TaskStateFailed)
        => TerminalWritten(queue)
              = toTaskFailedUpdateEvent(reqCtx, errorFromResponse(FirstErrorCoded),
                                        toEventMeta(toInvocationMeta(reqCtx),
                                                    FirstErrorCoded).val)

----------------------------------------------------------------------------
(* client role: translation failures (DriverSpec) *)

KnownKinds == {"task", "message", "artifact-update", "status-update"}

\* the step yields exactly one more event, an error event with the text, and
\* run ends with the client released
EndsWithErrorEvent(text) ==
    /\ Len(yielded') = Len(yielded) + 1
    /\ SubSeq(yielded', 1, Len(yielded)) = yielded
    /\ IsErrorEvent(Last(yielded'))
    /\ ReportsError(Last(yielded'))
    /\ Last(yielded').event.ErrorMessage = text
    /\ dpc' = "done"
    /\ client' = "destroyed"
    /\ destroys' = 1

\* C33: translating a wire event that is no Message, Task, TaskStatusUpdate
\* or TaskArtifactUpdate fails with the unknown-event-type error; the driver
\* yields exactly one error event for it and ends the invocation.
C33_UnknownKind ==
    [][/\ (ReadsEvent /\ Last(inbound').event.kind \notin KnownKinds) =>
             /\ ToSessionEvent(InvocationCtx, Last(inbound').event)
                   = Failure("unknown event type")
             /\ EndsWithErrorEvent("failed to convert a2aEvent: unknown event type")
       /\ dpc = "done" => UNCHANGED cvars]_vars

\* an event of unknown kind arrived after a translated one
C33_Witness ==
    /\ dpc = "done"
    /\ Len(inbound) = 2
    /\ Last(inbound).err = ""
    /\ Last(inbound).event.kind \notin KnownKinds
    /\ Len(yielded) = 2
    /\ ~ReportsError(yielded[1])
    /\ ReportsError(yielded[2])

\* C34: on every translated event the driver yields, the entry under the
\* response key is the encoding of the inbound wire event it was translated
\* from and the entry under the request key is the encoding of the request
\* sent; the two entries are different payloads.
C34_Correlation ==
    [][(ReadsEvent /\ YieldsOne) =>
          /\ HasRequest(Last(yielded'))
          /\ HasResponse(Last(yielded'))
          /\ Last(yielded').event.CustomMetadata[ToADKMetaKey("request")] = Payload(Request)
          /\ Last(yielded').event.CustomMetadata[ToADKMetaKey("response")]
                = Payload(Last(inbound').event)
          /\ Last(yielded').event.CustomMetadata[ToADKMetaKey("response")]
                # Last(yielded').event.CustomMetadata[ToADKMetaKey("request")]]_vars

----------------------------------------------------------------------------
(* non-final status updates with an empty or undecodable message (DriverSpec) *)

HasEmptyMessage(e) == e.Message # Nil /\ Len(e.Message.Parts) = 0

\* C35: a non-final status update whose message is present but has zero
\* parts is translated to no event and no error: the driver yields nothing
\* for it and goes on reading the stream.
C35_EmptyStatusMessage ==
    [][(ReadsEvent /\ IsNonFinalStatus(Last(inbound').event)
                   /\ HasEmptyMessage(Last(inbound').event))
          => /\ ToSessionEvent(InvocationCtx, Last(inbound').event) = NoEvent
             /\ YieldsNone]_vars

\* the wire parts ToSessionEvent decodes for an event
InboundParts(e) ==
    IF e.kind = "task" THEN SnapshotParts(e)
    ELSE IF e.kind = "message" \/ e.kind = "artifact-update" THEN e.Parts
    ELSE IF e.kind = "status-update" THEN MessageParts(e.Message)
    ELSE <<>>

\* the step yields exactly one more event, an error event, and run ends with
\* the client released
EndsWithOneErrorEvent ==
    /\ Len(yielded') = Len(yielded) + 1
    /\ SubSeq(yielded', 1, Len(yielded)) = yielded
    /\ IsErrorEvent(Last(yielded'))
    /\ ReportsError(Last(yielded'))
    /\ dpc' = "done"
    /\ client' = "destroyed"
    /\ destroys' = 1

\* C36: when the parts of an inbound event cannot be decoded, whatever the
\* kind of the event (the message of a non-final status update included), the
\* translator returns an error and does not fail abnormally, and the driver
\* yields exactly one error event and ends with the client released.
C36_DecodeFailure ==
    [][(ReadsEvent /\ ~Decodable(InboundParts(Last(inbound').event)))
          => /\ ~ToSessionEvent(InvocationCtx, Last(inbound').event).panic
             /\ ToSessionEvent(InvocationCtx, Last(inbound').event).err # ""
             /\ EndsWithOneErrorEvent]_vars

\* for the kinds other than the non-final status update a decode failure is
\* reported: one error event, then run ends with the client released
DecodeFailureElsewhere ==
    [][(ReadsEvent /\ ~IsNonFinalStatus(Last(inbound').event)
                   /\ ~Decodable(InboundParts(Last(inbound').event)))
          => /\ ~ToSessionEvent(InvocationCtx, Last(inbound').event).panic
             /\ ToSessionEvent(InvocationCtx, Last(inbound').event).err # ""
             /\ EndsWithOneErrorEvent]_vars

----------------------------------------------------------------------------
(* the context ID of the outbound message (DiffSpec) *)

\* the remote-authored events of the log that carry a context ID
WithContext == {i \in 1..Len(events) : /\ events[i].Author = RemoteName
                                       /\ ContextIDOf(events[i]) # ""}

LastWithContext == CHOOSE i \in WithContext : \A j \in WithContext : j <= i

\* an event run itself yields without a context ID: the empty event of an
\* empty message, or an error event
IsDriverEvent(event) ==
    /\ event.Author = RemoteName
    /\ event.Content = Nil
    /\ ContextIDOf(event) = ""

\* C37: once a remote event of the log carries a context ID, the
\* message built by a later invocation carries that context ID, whatever
\* events without one (the empty event, error events) the driver added after.
C37_ContextKept ==
    (MessageBuilt /\ GenericPath /\ WithContext # {})
        => msg.ContextID = ContextIDOf(events[LastWithContext])

\* what the code does: on the generic path the message carries the context
\* ID found in the metadata of the last remote-authored event, and the empty
\* context ID when that event has none (an error event, the empty event) or
\* when no event is remote-authored; an earlier context ID is not looked for.
\* On the continuation path the context ID is that of an event holding the
\* answered call.
LastRemoteContext ==
    MessageBuilt =>
        IF GenericPath
        THEN msg.ContextID = IF LastRemote = 0 THEN ""
                             ELSE ContextIDOf(events[LastRemote])
        ELSE \E k \in 1..(Len(events) - 1) :
                /\ \E a \in 1..Len(PartsOf(events[k])),
                      b \in 1..Len(PartsOf(Last(events))) :
                      /\ PartsOf(events[k])[a].FunctionCall # Nil
                      /\ PartsOf(Last(events))[b].FunctionResponse # Nil
                      /\ PartsOf(Last(events))[b].FunctionResponse.ID
                            = PartsOf(events[k])[a].FunctionCall.ID
                /\ msg.ContextID = ContextIDOf(events[k])

\* a message was sent after an error event that followed a remote event with
\* a context ID: the message has no context ID
ContextLost ==
    /\ MessageBuilt /\ GenericPath /\ sends = 1
    /\ WithContext # {}
    /\ LastRemote > LastWithContext
    /\ IsDriverEvent(events[LastRemote])
    /\ events[LastRemote].ErrorMessage # ""
    /\ msg.ContextID = ""

----------------------------------------------------------------------------
(* the session log while the outbound message is built (DiffSpec) *)

\* the message is built in this step
BuildsMessage == dpc = "newMessage" /\ dpc' # "newMessage"

\* an event of another agent that the generic path re-presents
Represented(i) ==
    /\ i > LastRemote
    /\ events[i].Author \notin {"user", RemoteName}
    /\ presentAsUserMessage(InvocationCtx, events[i]).Content # Nil

----------------------------------------------------------------------------
(* position of the terminal status in the queue (Spec) *)

IsClosingArtifact(e) == IsArtifact(e) /\ e.LastChunk /\ Len(e.Parts) = 0

\* C39: no status update with final=true is in the queue while the local run
\* can still yield events, and nothing is written after one; when the run is
\* exhausted normally the terminal status is the last event written, every
\* artifact update precedes it, and the closing artifact update (when an
\* artifact was opened) is the event just before it.
C39_FinalLast ==
    /\ [](pc = "run" => NumFinal(queue) = 0)
    /\ [][NumFinal(queue) > 0 => queue' = queue]_vars
    /\ []((ExecuteCompleted /\ runEnd = "normal") =>
            /\ IsFinalStatus(Last(queue))
            /\ \A i \in 1..(Len(queue) - 1) : ~IsFinalStatus(queue[i])
            /\ processor.responseID # "" =>
                  /\ Len(queue) > 1
                  /\ IsClosingArtifact(queue[Len(queue) - 1])
                  /\ queue[Len(queue) - 1].ArtifactID = processor.responseID)

\* a run that produced two artifact updates ended normally: the closing
\* update and the terminal status were written after them
C39_Witness ==
    /\ ExecuteCompleted /\ runEnd = "normal"
    /\ Cardinality({i \in 1..Len(queue) : IsArtifact(queue[i])}) = 3
    /\ IsClosingArtifact(queue[Len(queue) - 1])
    /\ IsFinalStatus(Last(queue))

----------------------------------------------------------------------------
(* one invocation, of the driver or of the executor (InvocationSpec) *)

InvocationInit == Init \/ DriverInit

InvocationNext == Next \/ DriverNext

InvocationSpec == InvocationInit /\ [][InvocationNext]_vars

\* how far Execute has got
Rank(p) ==
    IF p \in {"idle", "start"} THEN 0
    ELSE IF p = "submitted" THEN 1
    ELSE IF p = "prepareSession" THEN 2
    ELSE IF p = "working" THEN 3
    ELSE IF p = "run" THEN 4
    ELSE IF p = "terminal" THEN 5
    ELSE 6

\* run has come to an end through a failure
DriverFailed == exit \in {"resolve", "client", "message", "streamError",
                          "translateError", "panic"}

\* C40: within one invocation the driver issues at most one streaming send,
\* none after a failure, and does nothing once run has ended; the executor
\* enters the loop over the local run at most once, from the working status
\* with nothing yet run, never goes back to an earlier step, and after a run
\* or processing failure only returns.
C40_NoRetry ==
    /\ [](sends <= 1)
    /\ [][(DriverFailed \/ dpc = "done") => UNCHANGED cvars]_vars
    /\ [][DriverFailed' => (dpc' = "done" /\ sends' = sends)]_vars
    /\ [][Rank(pc') >= Rank(pc)]_vars
    /\ [][(pc # "run" /\ pc' = "run") => (pc = "working" /\ runLog = <<>>)]_vars
    /\ [][(runEnd' \in {"runError", "processError"}) => pc' = "done"]_vars
    /\ [][pc = "done" => UNCHANGED svars]_vars

\* the stream failed after the send: one send, run ended
C40_Witness ==
    /\ exit = "streamError" /\ dpc = "done" /\ sends = 1
    /\ Len(inbound) > 1

\* the local run failed after it was started: Execute has returned
C40_WitnessRun ==
    /\ pc = "done" /\ runEnd = "runError" /\ Len(runLog) > 1

====
